---- MODULE Spec2Model ----
(***************************************************************************)
(* A model of the .6cy streaming archive engine: SixCyWriter and           *)
(* SixCyReader (src/src/io_stream/mod.rs), the block codec pipeline        *)
(* (src/src/block.rs), the superblock (src/src/superblock.rs) and the      *)
(* codec registry (src/src/codec/mod.rs).                                  *)
(*                                                                         *)
(* The archive file is modelled as a superblock region [0,256), a set of   *)
(* block records keyed by their byte offset, and a length.  A byte string  *)
(* is a sequence over Bytes.  BLAKE3 is modelled as an injective function, *)
(* a compressed frame as the pair (format, plaintext) with a byte length,  *)
(* and an AES-GCM blob as the frame tagged with the key that sealed it.    *)
(***************************************************************************)
EXTENDS Integers, Sequences, FiniteSets, TLC

\* ---------------------------------------------------------------- bounds
MaxLen == 2
MaxFiles == 2
\* Writer calls made after the first finalize.
MaxPost == 1
\* Files in an archive that is damaged after it was written.
MaxTampered == 1
MaxChunk == 2
MaxBuf == 2
\* Entries of a required_codec_uuids list handed to Superblock::write.
MaxCodecs == 14
\* Candidates counted by a scan whose counters are rated.
MaxScanned == 20
\* Files a caller of short files adds.
MaxShortFiles == 3
\* Chunks handed to compress_chunks_parallel.
MaxPar == 3
\* The largest count of an RLE frame (65535 in the program), scaled down.
MaxCount == 5
\* Bytes handed to rle_encode: more than MaxCount.
MaxRle == 7
\* add_required_codec calls made on one superblock: more than there are codecs.
MaxCalls == 6
\* Capacity of a WriteBuffer, and write calls made on it.
MaxCap == 3
MaxWrites == 3
\* Width of the 32-bit header fields, scaled down.
SizeBits == 10

Bytes == {0, 1}

\* ------------------------------------------------------ program constants
SUPERBLOCK_SIZE == 256
BLOCK_HEADER_SIZE == 84
BLOCK_HEADER_VERSION == 1
FORMAT_VERSION == 3
MIN_FORMAT_VERSION == 3
FLAG_ENCRYPTED == 1
SB_FLAG_ENCRYPTED == 1
NONCE_LEN == 12
GCM_TAG_LEN == 16
\* The modulus of a `usize as u32` cast, and the all-ones file id.
U32 == 2 ^ SizeBits
\* The modulus of the 64-bit fields, scaled alike.
U64 == U32 * U32
FILE_ID_SHARED == U32 - 1

\* ------------------------------------------------------------- utilities
Min(a, b) == IF a < b THEN a ELSE b
Max(a, b) == IF a > b THEN a ELSE b

RECURSIVE SeqsUpTo(_)
SeqsUpTo(n) ==
    IF n = 0 THEN {<<>>}
    ELSE LET S == SeqsUpTo(n - 1)
         IN  S \cup {Append(s, b) : s \in {t \in S : Len(t) = n - 1}, b \in Bytes}

DataSet == SeqsUpTo(MaxLen)

\* Files of 0..MaxLen bytes 0, 1, 0, ...
Ramps == {[i \in 1..n |-> (i - 1) % 2] : n \in 0..MaxLen}

\* The empty file and the files whose first byte is 0: files with distinct
\* chunks and files whose chunks repeat.
Samples == {s \in DataSet : s = <<>> \/ s[1] = 0}

Ok(v)  == [ok |-> TRUE,  val |-> v,    err |-> "none"]
Err(e) == [ok |-> FALSE, val |-> <<>>, err |-> e]

\* --------------------------------------------------------- codec registry
AllCodecs == <<"None", "Zstd", "Lz4", "Brotli", "Lzma">>
\* The codecs the callers pass: the identity codec and one compressor.
CodecIds == {"None", "Zstd"}

uuid(c) ==
    CASE c = "None"   -> "UUID_NONE"
      [] c = "Zstd"   -> "UUID_ZSTD"
      [] c = "Lz4"    -> "UUID_LZ4"
      [] c = "Brotli" -> "UUID_BROTLI"
      [] c = "Lzma"   -> "UUID_LZMA"

\* CodecId::from_uuid: "NoCodec" stands for Option::None.
from_uuid(u) ==
    CASE u = "UUID_NONE"   -> "None"
      [] u = "UUID_ZSTD"   -> "Zstd"
      [] u = "UUID_LZ4"    -> "Lz4"
      [] u = "UUID_BROTLI" -> "Brotli"
      [] u = "UUID_LZMA"   -> "Lzma"
      [] OTHER             -> "NoCodec"

\* Bytes a codec adds around n plaintext bytes (frame magic / size prefix).
FrameOverhead(c) ==
    CASE c = "None" -> 0
      [] c = "Lz4"  -> 4
      [] OTHER      -> 9

\* Codec::compress: a frame in the codec's own format.
compress(c, data) == [fmt |-> c, raw |-> data]

FrameLen(f) == Len(f.raw) + FrameOverhead(f.fmt)

\* What a damaged frame decodes to when the decoder does not notice: some
\* other byte string (here the plaintext without its first byte).
Garble(d) == Tail(d)

\* Codec::decompress of a frame: a frame of another format is rejected; a
\* damaged frame decodes without complaint to other bytes when it carries
\* any, and is rejected otherwise.
decompress(c, f, dmg) ==
    IF c = "None"
      THEN Ok(IF dmg /\ Len(f.raw) > 0 THEN Garble(f.raw) ELSE f.raw)
      ELSE IF f.fmt # c THEN Err("Decompression")
           ELSE IF ~dmg THEN Ok(f.raw)
           ELSE IF Len(f.raw) = 0 THEN Err("Decompression")
           ELSE Ok(Garble(f.raw))

\* ---------------------------------------------------------------- crypto
NoKey == "NoKey"

\* crypto::encrypt: nonce (12 B) || ciphertext || tag (16 B).
encrypt(key, frame) == [key |-> key, frame |-> frame, dmg |-> FALSE]

\* A payload that was never encrypted.
plain(frame) == [key |-> NoKey, frame |-> frame, dmg |-> FALSE]

PayloadLen(p) ==
    FrameLen(p.frame) + (IF p.key = NoKey THEN 0 ELSE NONCE_LEN + GCM_TAG_LEN)

\* Fault variant: the GCM tag is accepted under any key.
decrypt_any_key(key, p) ==
    IF PayloadLen(p) < NONCE_LEN THEN Err("TooShort")
    ELSE IF p.dmg THEN Err("DecryptionFailed")
    ELSE Ok(p.frame)

\* crypto::decrypt: too short, or the GCM tag fails under this key.
decrypt(key, p) ==
    IF PayloadLen(p) < NONCE_LEN THEN Err("TooShort")
    ELSE IF p.key # key \/ p.dmg THEN Err("DecryptionFailed")
    ELSE Ok(p.frame)

\* blake3::hash, injective on byte strings.
blake3(data) == <<"blake3", data>>


\* ----------------------------------------------------------------- block
\* encode_block: hash the plaintext, compress, optionally encrypt, and fill
\* the header.  The two size fields are 32 bits wide.
encode_block(block_type, file_id, file_offset, data, codec_id, encryption_key) ==
    LET frame   == compress(codec_id, data)
        payload == IF encryption_key # NoKey THEN encrypt(encryption_key, frame)
                                           ELSE plain(frame)
        header  == [header_version |-> BLOCK_HEADER_VERSION,
                    header_size    |-> BLOCK_HEADER_SIZE,
                    block_type     |-> block_type,
                    flags          |-> IF encryption_key # NoKey THEN FLAG_ENCRYPTED ELSE 0,
                    codec_uuid     |-> uuid(codec_id),
                    file_id        |-> file_id,
                    file_offset    |-> file_offset,
                    orig_size      |-> Len(data) % U32,
                    comp_size      |-> PayloadLen(payload) % U32,
                    content_hash   |-> blake3(data)]
    IN  [header |-> header, payload |-> payload]

is_encrypted(header) == header.flags % 2 = 1

\* Fault variant: the output is returned without comparing its BLAKE3.
verify_content_hash_skipped(header, out) == Ok(out)

\* Step 3 of decode_block: BLAKE3 of the output against the header.
verify_content_hash(header, out) ==
    IF blake3(out) # header.content_hash THEN Err("Decompression") ELSE Ok(out)

\* decode_block: decrypt when flagged, decompress with the codec the header
\* names, then compare BLAKE3 of the output with header.content_hash.
decode_block(header, payload, decryption_key) ==
    LET Verified(out) ==
            IF ~out.ok THEN out ELSE verify_content_hash(header, out.val)
        Decompressed(dec) ==
            IF ~dec.ok THEN dec
            ELSE IF from_uuid(header.codec_uuid) = "NoCodec" THEN Err("UnavailableCodec")
            ELSE Verified(decompress(from_uuid(header.codec_uuid),
                                     dec.val.frame, dec.val.dmg))
    IN  Decompressed(
          IF is_encrypted(header)
            THEN IF decryption_key = NoKey THEN Err("Encryption")
                 ELSE IF decrypt(decryption_key, payload).ok
                        THEN Ok([frame |-> payload.frame, dmg |-> FALSE])
                        ELSE Err("Encryption")
            ELSE Ok([frame |-> payload.frame,
                     dmg |-> payload.dmg \/ payload.key # NoKey]))

\* ------------------------------------------------------------------ state
VARIABLES
    writer,     \* the SixCyWriter's fields
    disk,       \* the archive file: superblock region, blocks, raw extents, length
    hist,       \* what the caller did: files added, calls made, last return
    reader,     \* the SixCyReader's fields, or NoReader
    rd          \* the last reader call: its I/O, the blocks it decoded, its result

vars == <<writer, disk, hist, reader, rd>>

\* ------------------------------------------------------------- superblock
\* Superblock::new (the archive UUID is not modelled).
Superblock_new ==
    [flags |-> 0, index_offset |-> 0, index_size |-> 0,
     required_codec_uuids |-> <<>>]

Range(s) == {s[i] : i \in 1..Len(s)}

\* Fault variant: the UUID is pushed without looking for it in the list.
add_required_codec_no_dedup(sb, codec_id) ==
    IF codec_id = "None" THEN sb
    ELSE [sb EXCEPT !.required_codec_uuids = Append(@, uuid(codec_id))]

\* Superblock::add_required_codec
add_required_codec(sb, codec_id) ==
    IF codec_id = "None" THEN sb
    ELSE IF uuid(codec_id) \in Range(sb.required_codec_uuids) THEN sb
    ELSE [sb EXCEPT !.required_codec_uuids = Append(@, uuid(codec_id))]

\* The 256 reserved bytes with_options writes at offset 0.
ZeroSuperblock ==
    [magic |-> "zero", format_version |-> 0, crc_ok |-> FALSE,
     flags |-> 0, index_offset |-> 0, index_size |-> 0,
     required_codec_uuids |-> <<>>]

\* Fault variant: the 4 bytes of the CRC32 are not counted.
SuperblockBodyLen_no_crc(n) == 46 + 16 * n

\* body.len() in Superblock::write for n required codec UUIDs: 46 fixed
\* bytes, 16 per UUID, 4 of CRC32.
SuperblockBodyLen(n) == 46 + 16 * n + 4

\* Superblock::write: the bytes of the superblock region after the call.
Superblock_write(sb) ==
    [magic |-> ".6cy", format_version |-> FORMAT_VERSION, crc_ok |-> TRUE,
     flags |-> sb.flags, index_offset |-> sb.index_offset,
     index_size |-> sb.index_size,
     required_codec_uuids |-> sb.required_codec_uuids]

\* ------------------------------------------------------------------ index
\* BlockRef::is_solid_slice
is_solid_slice(br) == br.intra_length > 0

RECURSIVE Concat(_)
Concat(ss) == IF ss = <<>> THEN <<>> ELSE Head(ss) \o Concat(Tail(ss))

\* Fault variant: the archive offsets of the refs enter the transcript too.
compute_root_hash_with_offsets(index) ==
    [index EXCEPT !.root_hash =
        blake3(Concat([i \in 1..Len(index.records) |->
            [j \in 1..Len(index.records[i].block_refs) |->
                <<index.records[i].block_refs[j].content_hash,
                  index.records[i].block_refs[j].archive_offset>>]]))]

\* FileIndex::compute_root_hash: BLAKE3 over every content_hash, in record
\* order then ref order.
compute_root_hash(index) ==
    [index EXCEPT !.root_hash =
        blake3(Concat([i \in 1..Len(index.records) |->
            [j \in 1..Len(index.records[i].block_refs) |->
                index.records[i].block_refs[j].content_hash]]))]

\* FileIndex::to_bytes / from_bytes: the JSON text of the index, modelled as
\* its opening brace (byte 123), the root hash and one element per record.
\* Bytes that do not start a JSON object are rejected.
to_bytes(index) == <<123, index.root_hash>> \o index.records
from_bytes(b) ==
    IF Len(b) >= 2 /\ b[1] = 123
      THEN Ok([records |-> SubSeq(b, 3, Len(b)), root_hash |-> b[2]])
      ELSE Err("Json")

\* RecoveryMap::to_bytes: its length in bytes.
RecoveryLen(map) == 2 + Len(map)

\* ------------------------------------------------------------ file writes
Overlaps(a, n, b, m) == n > 0 /\ m > 0 /\ a < b + m /\ b < a + n

BlockLen(b) == BLOCK_HEADER_SIZE + PayloadLen(b.payload)

\* disk.blocks maps the offset of every intact header to the block there.
\* write_all of n bytes at offset p: a block whose header bytes are hit no
\* longer starts with a valid header, one whose payload bytes are hit keeps
\* its header over a damaged payload.
Clobber(d, p, n) ==
    LET kept == {o \in DOMAIN d.blocks : ~Overlaps(p, n, o, BLOCK_HEADER_SIZE)}
    IN  [d EXCEPT
           !.blocks = [o \in kept |->
                         IF Overlaps(p, n, o + BLOCK_HEADER_SIZE,
                                     PayloadLen(d.blocks[o].payload))
                           THEN [d.blocks[o] EXCEPT !.payload.dmg = TRUE]
                           ELSE d.blocks[o]],
           !.raw    = {r \in d.raw : ~Overlaps(p, n, r.off, r.len)},
           !.len    = Max(@, p + n)]

\* header.write followed by write_all(payload) at the stream position.
WriteBlock(st, header, payload) ==
    LET n == BLOCK_HEADER_SIZE + PayloadLen(payload)
        d == Clobber(st.d, st.w.pos, n)
    IN  [w |-> [st.w EXCEPT !.pos = @ + n],
         d |-> [d EXCEPT !.blocks =
                   [o \in DOMAIN @ \cup {st.w.pos} |->
                      IF o = st.w.pos
                        THEN [off |-> o, header |-> header, hstate |-> "ok",
                              payload |-> payload]
                        ELSE @[o]]]]

\* ----------------------------------------------------------------- writer
NoCodec == "NoCodec"

\* Fault variant: no region is reserved, the first block starts at offset 0.
with_options_no_reserve(chunk_size, encryption_key) ==
    [w |-> [superblock        |-> Superblock_new,
            index             |-> [records |-> <<>>, root_hash |-> <<"zero32">>],
            recovery_map      |-> <<>>,
            solid_buffer      |-> <<>>,
            solid_codec       |-> NoCodec,
            solid_file_ranges |-> <<>>,
            block_dedup       |-> <<>>,
            chunk_size        |-> Max(chunk_size, 1),
            encryption_key    |-> encryption_key,
            pos               |-> 0],
     d |-> [sb |-> ZeroSuperblock, blocks |-> <<>>, raw |-> {}, len |-> 0]]

\* SixCyWriter::with_options: 256 zero bytes reserved at offset 0.
with_options(chunk_size, encryption_key) ==
    [w |-> [superblock        |-> Superblock_new,
            index             |-> [records |-> <<>>, root_hash |-> <<"zero32">>],
            recovery_map      |-> <<>>,
            solid_buffer      |-> <<>>,
            solid_codec       |-> NoCodec,
            solid_file_ranges |-> <<>>,
            block_dedup       |-> <<>>,
            chunk_size        |-> Max(chunk_size, 1),
            encryption_key    |-> encryption_key,
            pos               |-> SUPERBLOCK_SIZE],
     d |-> [sb |-> ZeroSuperblock, blocks |-> <<>>, raw |-> {}, len |-> SUPERBLOCK_SIZE]]

\* block_dedup is kept as the list of its insertions, one per content hash.

\* index.records.iter_mut().find(|r| r.id == file_id): its position, 0 if absent.
FindRecord(records, file_id) ==
    IF \E i \in 1..Len(records) : records[i].id = file_id
      THEN CHOOSE i \in 1..Len(records) :
             /\ records[i].id = file_id
             /\ \A j \in 1..(i - 1) : records[j].id # file_id
      ELSE 0

\* Fault variant: every slice is recorded at offset 0 of the solid payload.
SliceRef_at_zero(r, archive_offset) ==
    [content_hash   |-> r.content_hash,
     archive_offset |-> archive_offset,
     intra_offset   |-> 0,
     intra_length   |-> r.intra_length]

\* The BlockRef flush_solid_session builds for a pending range.
SliceRef(r, archive_offset) ==
    [content_hash   |-> r.content_hash,
     archive_offset |-> archive_offset,
     intra_offset   |-> r.intra_offset,
     intra_length   |-> r.intra_length]

\* The drain loop of flush_solid_session over the pending ranges.
RECURSIVE BackFill(_, _, _, _)
BackFill(records, ranges, archive_offset, payload_len) ==
    IF ranges = <<>> THEN records
    ELSE LET r == Head(ranges)
             i == FindRecord(records, r.file_id)
             br == SliceRef(r, archive_offset)
             recs == IF i = 0 THEN records
                     ELSE [records EXCEPT ![i].block_refs = Append(@, br),
                                          ![i].compressed_size = payload_len]
         IN  BackFill(recs, Tail(ranges), archive_offset, payload_len)

\* Fault variant: the flushed session enters each of its files in the CAS
\* table under the file's content hash.
flush_solid_session_enters_cas(st) ==
    LET Entered(w1, enc, st1) ==
            [st1 EXCEPT
               !.w.index.records = BackFill(@, w1.solid_file_ranges, w1.pos,
                                            PayloadLen(enc.payload)),
               !.w.block_dedup = @ \o
                   [i \in 1..Len(w1.solid_file_ranges) |->
                       [hash |-> w1.solid_file_ranges[i].content_hash,
                        off  |-> w1.pos,
                        len  |-> PayloadLen(enc.payload)]],
               !.w.solid_file_ranges = <<>>,
               !.w.solid_buffer = <<>>]
        Written(w1, enc) ==
            Entered(w1, enc, WriteBlock([w |-> w1, d |-> st.d], enc.header, enc.payload))
        Flush(codec, w1) ==
            Written(w1, encode_block("Solid", FILE_ID_SHARED, 0, w1.solid_buffer,
                                     codec, w1.encryption_key))
        Take(codec, w0) ==
            IF codec = NoCodec THEN st
            ELSE IF Len(w0.solid_buffer) = 0
              THEN [st EXCEPT !.w = [w0 EXCEPT !.solid_file_ranges = <<>>]]
            ELSE Flush(codec, [w0 EXCEPT !.superblock = add_required_codec(@, codec)])
    IN  Take(st.w.solid_codec, [st.w EXCEPT !.solid_codec = NoCodec])

\* SixCyWriter::flush_solid_session
flush_solid_session(st) ==
    LET Filled(w1, enc, st1) ==
            [st1 EXCEPT
               !.w.index.records = BackFill(@, w1.solid_file_ranges, w1.pos,
                                            PayloadLen(enc.payload)),
               !.w.solid_file_ranges = <<>>,
               !.w.solid_buffer = <<>>]
        Written(w1, enc) ==
            Filled(w1, enc, WriteBlock([w |-> w1, d |-> st.d], enc.header, enc.payload))
        Flush(codec, w1) ==
            Written(w1, encode_block("Solid", FILE_ID_SHARED, 0, w1.solid_buffer,
                                     codec, w1.encryption_key))
        Take(codec, w0) ==
            IF codec = NoCodec THEN st
            ELSE IF Len(w0.solid_buffer) = 0
              THEN [st EXCEPT !.w = [w0 EXCEPT !.solid_file_ranges = <<>>]]
            ELSE Flush(codec, [w0 EXCEPT !.superblock = add_required_codec(@, codec)])
    IN  Take(st.w.solid_codec, [st.w EXCEPT !.solid_codec = NoCodec])

\* SixCyWriter::flush_solid_session when encode_block (or the
\* stream_position call after it) returns an error on a non-empty buffer:
\* the codec has been taken out of solid_codec and entered in the superblock,
\* no byte is written, buffer and pending ranges stay.
flush_solid_session_failing(st) ==
    [st EXCEPT !.w.solid_codec = NoCodec,
               !.w.superblock = add_required_codec(@, st.w.solid_codec)]

\* Fault variant: a session that is open keeps its codec.
start_solid_session_keeps_codec(st, codec) ==
    [flush_solid_session(st) EXCEPT
        !.w.solid_codec = IF st.w.solid_codec # NoCodec THEN st.w.solid_codec
                                                        ELSE codec]

\* SixCyWriter::start_solid_session
start_solid_session(st, codec) ==
    [flush_solid_session(st) EXCEPT !.w.solid_codec = codec]

\* Fault variant: the CAS table never reports a hit.
cas_lookup_miss(block_dedup, content_hash) == {}

\* self.block_dedup.get(&content_hash): the entries stored under the hash.
cas_lookup(block_dedup, content_hash) ==
    {e \in Range(block_dedup) : e.hash = content_hash}

\* Fault variant: each chunk runs one byte into the next.
Chunk_overlapping(data, chunk_size, k) ==
    SubSeq(data, k * chunk_size + 1, Min((k + 1) * chunk_size + 1, Len(data)))

\* The k-th chunk of data.chunks(chunk_size), k from 0.
Chunk(data, chunk_size, k) ==
    SubSeq(data, k * chunk_size + 1, Min((k + 1) * chunk_size, Len(data)))

\* Fault variant: every block header is written with file_offset 0.
FileOffset_zero(chunk_idx, chunk_size) == 0

\* file_offset = (chunk_idx * self.chunk_size) as u64
FileOffset(chunk_idx, chunk_size) == chunk_idx * chunk_size

\* The chunk loop of add_file from chunk k on; acc holds the writer and file
\* state together with the record under construction.
RECURSIVE AddChunks(_, _, _, _, _)
AddChunks(acc, data, codec, file_id, k) ==
    LET Hit(content_hash, e) ==
            AddChunks(
              [acc EXCEPT
                 !.record.block_refs = Append(@,
                     [content_hash   |-> content_hash,
                      archive_offset |-> e.off,
                      intra_offset   |-> 0,
                      intra_length   |-> 0]),
                 !.record.compressed_size = @ + e.len],
              data, codec, file_id, k + 1)
        Stored(content_hash, archive_offset, comp_len, st1) ==
            AddChunks(
              [st |-> [st1 EXCEPT !.w.block_dedup = Append(@,
                          [hash |-> content_hash,
                           off  |-> archive_offset,
                           len  |-> comp_len])],
               record |-> [acc.record EXCEPT
                   !.block_refs = Append(@,
                     [content_hash   |-> content_hash,
                      archive_offset |-> archive_offset,
                      intra_offset   |-> 0,
                      intra_length   |-> 0]),
                   !.compressed_size = @ + comp_len]],
              data, codec, file_id, k + 1)
        Miss(content_hash, enc) ==
            Stored(content_hash, acc.st.w.pos, PayloadLen(enc.payload),
                   WriteBlock(acc.st, enc.header, enc.payload))
        Looked(cs, chunk, content_hash, hit) ==
            IF hit # {}
              THEN Hit(content_hash, CHOOSE x \in hit : TRUE)
              ELSE Miss(content_hash,
                        encode_block("Data", file_id, FileOffset(k, cs), chunk, codec,
                                     acc.st.w.encryption_key))
        Hashed(cs, chunk, content_hash) ==
            Looked(cs, chunk, content_hash,
                   cas_lookup(acc.st.w.block_dedup, content_hash))
        Cut(cs, chunk) == Hashed(cs, chunk, blake3(chunk))
        Loop(cs) ==
            IF k * cs >= Len(data) THEN acc
            ELSE Cut(cs, Chunk(data, cs, k))
    IN  Loop(acc.st.w.chunk_size)

\* Fault variant: file ids are counted from 1.
NextFileId_one_based(records) == (Len(records) + 1) % U32

\* file_id = self.index.records.len() as u32
NextFileId(records) == Len(records) % U32

\* SixCyWriter::add_file
add_file(st, name, data, codec) ==
    LET Pushed(file_id, acc) ==
            [acc.st EXCEPT
               !.w.recovery_map = Append(@, [archive_offset |-> acc.st.w.pos,
                                             last_file_id   |-> file_id]),
               !.w.index.records = Append(@, acc.record)]
        Add(file_id, record) ==
            IF st.w.solid_codec # NoCodec
              THEN [st EXCEPT
                      !.w.solid_file_ranges = Append(@,
                          [file_id      |-> file_id,
                           intra_offset |-> Len(st.w.solid_buffer),
                           intra_length |-> Len(data),
                           content_hash |-> blake3(data)]),
                      !.w.solid_buffer = @ \o data,
                      !.w.index.records = Append(@, record)]
              ELSE Pushed(file_id,
                     AddChunks([st |-> [st EXCEPT !.w.superblock =
                                                     add_required_codec(@, codec)],
                                record |-> record], data, codec, file_id, 0))
        Numbered(file_id) ==
            Add(file_id, [id |-> file_id, name |-> name, block_refs |-> <<>>,
                          original_size |-> Len(data), compressed_size |-> 0])
    IN  Numbered(NextFileId(st.w.index.records))

\* SixCyWriter::add_file in normal mode when encode_block (or the
\* stream_position call after it) fails for chunk fail_at, a chunk that is
\* not a CAS hit: the chunks before it have been written and entered in the
\* CAS table, no checkpoint and no record is pushed.
add_file_failing(st, name, data, codec, fail_at) ==
    LET Numbered(file_id) ==
            AddChunks([st |-> [st EXCEPT !.w.superblock = add_required_codec(@, codec)],
                       record |-> [id |-> file_id, name |-> name, block_refs |-> <<>>,
                                   original_size |-> Len(data), compressed_size |-> 0]],
                      SubSeq(data, 1, fail_at * st.w.chunk_size), codec, file_id, 0).st
    IN  Numbered(NextFileId(st.w.index.records))

\* Fault variant: index_offset is patched with the offset of the Index payload.
patch_superblock_at_payload(sb, index_offset, index_size, encryption_key) ==
    [sb EXCEPT
       !.index_offset = index_offset + BLOCK_HEADER_SIZE,
       !.index_size = index_size,
       !.flags = IF encryption_key # NoKey
                   THEN IF @ % 2 = 1 THEN @ ELSE @ + SB_FLAG_ENCRYPTED
                   ELSE @]

\* The superblock patch of finalize.
patch_superblock(sb, index_offset, index_size, encryption_key) ==
    [sb EXCEPT
       !.index_offset = index_offset,
       !.index_size = index_size,
       !.flags = IF encryption_key # NoKey
                   THEN IF @ % 2 = 1 THEN @ ELSE @ + SB_FLAG_ENCRYPTED
                   ELSE @]

\* SixCyWriter::finalize
finalize(st) ==
    LET Patched(st2, d3, sb) ==
            [w |-> [st2.w EXCEPT !.superblock = sb, !.pos = SUPERBLOCK_SIZE],
             d |-> [d3 EXCEPT !.sb = Superblock_write(sb)]]
        Mapped(st2, index_offset, enc, recovery_offset, rlen) ==
            Patched(st2,
                    [Clobber(st2.d, recovery_offset, rlen) EXCEPT
                       !.raw = @ \cup {[off |-> recovery_offset, len |-> rlen,
                                        map |-> st2.w.recovery_map]}],
                    patch_superblock(st2.w.superblock, index_offset,
                                     PayloadLen(enc.payload), st2.w.encryption_key))
        Indexed(index_offset, enc, st2) ==
            Mapped(st2, index_offset, enc, st2.w.pos,
                   8 + RecoveryLen(st2.w.recovery_map))
        Encoded(st1, index, enc) ==
            Indexed(st1.w.pos, enc,
                    WriteBlock([st1 EXCEPT !.w.index = index], enc.header, enc.payload))
        Hashed(st1, index) ==
            Encoded(st1, index,
                    encode_block("Index", FILE_ID_SHARED, 0, to_bytes(index), "Zstd", NoKey))
        Flushed(st1) == Hashed(st1, compute_root_hash(st1.w.index))
    IN  Flushed(flush_solid_session(st))

\* ----------------------------------------------------------------- reader
\* No reader has been opened.
NoReader ==
    [open |-> FALSE, superblock |-> Superblock_new,
     index |-> [records |-> <<>>, root_hash |-> <<"zero32">>],
     decryption_key |-> NoKey]

\* Fault variant: the availability check accepts every UUID.
check_codecs_accept_all(required_codec_uuids) == Ok(<<>>)

\* Superblock::check_codecs
check_codecs(required_codec_uuids) ==
    IF \E i \in 1..Len(required_codec_uuids) :
            from_uuid(required_codec_uuids[i]) = NoCodec
      THEN Err("UnavailableCodec")
      ELSE Ok(<<>>)

\* Superblock::read on the bytes of the superblock region.
Superblock_read(d) ==
    IF d.len < SUPERBLOCK_SIZE THEN Err("Io")
    ELSE IF d.sb.magic # ".6cy" THEN Err("InvalidMagic")
    ELSE IF d.sb.format_version < MIN_FORMAT_VERSION THEN Err("UnsupportedVersion")
    ELSE IF 46 + Len(d.sb.required_codec_uuids) * 16 + 4 > SUPERBLOCK_SIZE THEN Err("Io")
    ELSE IF ~d.sb.crc_ok THEN Err("Crc32Mismatch")
    ELSE IF ~check_codecs(d.sb.required_codec_uuids).ok
      THEN check_codecs(d.sb.required_codec_uuids)
    ELSE Ok([flags |-> d.sb.flags, index_offset |-> d.sb.index_offset,
             index_size |-> d.sb.index_size,
             required_codec_uuids |-> d.sb.required_codec_uuids])

\* BlockHeader::read of the 84 bytes at off: CRC32 first, then magic, then
\* header version, then header_size >= 84.  Bytes that are not a written
\* header fail the CRC.
BlockHeader_read(d, off) ==
    IF off + BLOCK_HEADER_SIZE > d.len THEN Err("UnexpectedEof")
    ELSE IF off \notin DOMAIN d.blocks THEN Err("HeaderCrc")
    ELSE LET b == d.blocks[off]
         IN  CASE b.hstate = "crc"     -> Err("HeaderCrc")
               [] b.hstate = "magic"   -> Err("BadMagic")
               [] b.hstate = "version" -> Err("BadVersion")
               [] b.header.header_size < BLOCK_HEADER_SIZE -> Err("BadHeaderSize")
               [] OTHER                -> Ok(b.header)

\* SixCyReader::read_block_at: the header, then the comp_size bytes that
\* follow its 84 bytes.  The payload of a block lies header_size bytes after
\* the start of its header: when header_size > 84 the bytes read are the
\* extension bytes and a prefix of the payload, not the payload.
read_block_at(d, off) ==
    LET Payload(header, b) ==
            Ok([header |-> header,
                payload |-> IF /\ header.comp_size = PayloadLen(b.payload)
                               /\ \/ header.header_size = BLOCK_HEADER_SIZE
                                  \/ header.comp_size = 0
                              THEN b.payload
                              ELSE [b.payload EXCEPT !.dmg = TRUE]])
        Header(h) ==
            IF ~h.ok THEN h
            ELSE IF off + BLOCK_HEADER_SIZE + h.val.comp_size > d.len
              THEN Err("UnexpectedEof")
            ELSE Payload(h.val, d.blocks[off])
    IN  Header(BlockHeader_read(d, off))

\* SixCyReader::decompress_ref
decompress_ref(r, d, br) ==
    LET Slice(dec) ==
            IF ~dec.ok THEN dec
            ELSE IF is_solid_slice(br)
              THEN IF br.intra_offset + br.intra_length > Len(dec.val)
                     THEN Err("InvalidData")
                     ELSE Ok(SubSeq(dec.val, br.intra_offset + 1,
                                    br.intra_offset + br.intra_length))
              ELSE dec
        Decode(blk) ==
            IF ~blk.ok THEN blk
            ELSE Slice(decode_block(blk.val.header, blk.val.payload, r.decryption_key))
    IN  Decode(read_block_at(d, br.archive_offset))

\* SixCyReader::with_key: the superblock gate, then the INDEX block.  io is
\* the list of reads the call made, as (offset, length).
with_key(d, decryption_key) ==
    LET Failed(err, io) == [ok |-> FALSE, err |-> err, io |-> io, reader |-> NoReader]
        Parsed(sb, idx, io2) ==
            IF ~idx.ok THEN Failed(idx.err, io2)
            ELSE [ok |-> TRUE, err |-> "none", io |-> io2,
                  reader |-> [open           |-> TRUE,
                              superblock     |-> sb.val,
                              index          |-> idx.val,
                              decryption_key |-> decryption_key]]
        Decoded(sb, raw, io2) ==
            Parsed(sb, IF raw.ok THEN from_bytes(raw.val) ELSE raw, io2)
        Fetched(sb, blk, io2) ==
            Decoded(sb,
                    IF blk.ok THEN decode_block(blk.val.header, blk.val.payload, NoKey)
                              ELSE blk,
                    io2)
        Located(sb, off, h, io1) ==
            IF ~h.ok THEN Failed(h.err, io1)
            ELSE Fetched(sb, read_block_at(d, off),
                         Append(io1, [off |-> off + BLOCK_HEADER_SIZE,
                                      len |-> h.val.comp_size]))
        Gated(sb, io0) ==
            IF ~sb.ok THEN Failed(sb.err, io0)
            ELSE Located(sb, sb.val.index_offset,
                         BlockHeader_read(d, sb.val.index_offset),
                         Append(io0, [off |-> sb.val.index_offset,
                                      len |-> BLOCK_HEADER_SIZE]))
    IN  Gated(Superblock_read(d), <<[off |-> 0, len |-> SUPERBLOCK_SIZE]>>)

\* The loop of unpack_file over the refs from position i on.
RECURSIVE UnpackRefs(_, _, _, _, _)
UnpackRefs(r, d, refs, i, acc) ==
    LET Take(x, t) ==
            IF ~x.ok THEN [acc EXCEPT !.ok = FALSE, !.err = x.err, !.val = <<>>,
                                      !.touched = t]
            ELSE UnpackRefs(r, d, refs, i + 1,
                   [acc EXCEPT !.val = @ \o x.val,
                               !.used = @ \cup {refs[i].archive_offset},
                               !.touched = t])
    IN  IF i > Len(refs) THEN acc
        ELSE Take(decompress_ref(r, d, refs[i]),
                  acc.touched \cup {refs[i].archive_offset})

\* SixCyReader::unpack_file; touched is the set of offsets the call passed to
\* decompress_ref, used the offsets of the blocks whose decoded bytes went
\* into the output.
unpack_file(r, d, file_id) ==
    LET i == FindRecord(r.index.records, file_id)
        acc0 == [ok |-> TRUE, val |-> <<>>, err |-> "none", used |-> {}, touched |-> {}]
    IN  IF i = 0 THEN [acc0 EXCEPT !.ok = FALSE, !.err = "NotFound"]
        ELSE UnpackRefs(r, d, r.index.records[i].block_refs, 1, acc0)

\* The loop of read_at over the refs from position i on.
RECURSIVE ReadRefs(_, _, _, _, _, _, _)
ReadRefs(r, d, refs, i, offset, buflen, acc) ==
    LET Copy(x, t, block_end, read_start, to_copy) ==
            ReadRefs(r, d, refs, i + 1, offset, buflen,
              [acc EXCEPT
                 !.val = @ \o SubSeq(x.val, read_start + 1, read_start + to_copy),
                 !.used = @ \cup {refs[i].archive_offset},
                 !.touched = t,
                 !.file_pos = block_end])
        Overlap(x, t, block_end, read_start) ==
            Copy(x, t, block_end, read_start,
                 Min(buflen - Len(acc.val), Len(x.val) - read_start))
        Walk(x, t, block_end) ==
            IF block_end <= offset
              THEN ReadRefs(r, d, refs, i + 1, offset, buflen,
                            [acc EXCEPT !.file_pos = block_end, !.touched = t])
              ELSE Overlap(x, t, block_end,
                           IF offset > acc.file_pos THEN offset - acc.file_pos ELSE 0)
        Take(x, t) ==
            IF ~x.ok THEN [acc EXCEPT !.ok = FALSE, !.err = x.err, !.touched = t]
            ELSE Walk(x, t, acc.file_pos + Len(x.val))
    IN  IF i > Len(refs) \/ Len(acc.val) = buflen THEN acc
        ELSE Take(decompress_ref(r, d, refs[i]),
                  acc.touched \cup {refs[i].archive_offset})

\* Fault variant: the window always starts at byte 0 of the file.
read_at_from_start(r, d, file_id, offset, buflen) ==
    LET i == FindRecord(r.index.records, file_id)
        acc0 == [ok |-> TRUE, val |-> <<>>, err |-> "none", used |-> {},
                 touched |-> {}, file_pos |-> 0]
    IN  IF i = 0 THEN [acc0 EXCEPT !.ok = FALSE, !.err = "NotFound"]
        ELSE IF offset >= r.index.records[i].original_size \/ buflen = 0 THEN acc0
        ELSE ReadRefs(r, d, r.index.records[i].block_refs, 1, 0, buflen, acc0)

\* SixCyReader::read_at; val is buf[0..n) for the n the call returns (on an
\* error, what the call had copied into buf before it failed).
read_at(r, d, file_id, offset, buflen) ==
    LET i == FindRecord(r.index.records, file_id)
        acc0 == [ok |-> TRUE, val |-> <<>>, err |-> "none", used |-> {},
                 touched |-> {}, file_pos |-> 0]
    IN  IF i = 0 THEN [acc0 EXCEPT !.ok = FALSE, !.err = "NotFound"]
        ELSE IF offset >= r.index.records[i].original_size \/ buflen = 0 THEN acc0
        ELSE ReadRefs(r, d, r.index.records[i].block_refs, 1, offset, buflen, acc0)

\* ------------------------------------------------------- recovery scanner
\* ScannedBlock.header = None.
NoHeader ==
    [header_version |-> 0, header_size |-> 0, block_type |-> "None", flags |-> 0,
     codec_uuid |-> "none", file_id |-> 0, file_offset |-> 0, orig_size |-> 0,
     comp_size |-> 0, content_hash |-> <<"zero32">>]

\* Fault variant: a block whose payload is cut short counts as usable.
is_usable_truncated(health) == health \in {"Healthy", "TruncatedPayload"}

\* BlockHealth::is_usable
is_usable(health) == health = "Healthy"

\* slice::sort_by_key on a list of [key, val] pairs: a stable sort.
RECURSIVE StableSort(_)
StableSort(s) ==
    IF Len(s) <= 1 THEN s
    ELSE LET rest == StableSort(SubSeq(s, 1, Len(s) - 1))
             x == s[Len(s)]
             k == Cardinality({i \in 1..Len(rest) : rest[i].key <= x.key})
         IN  SubSeq(rest, 1, k) \o <<x>> \o SubSeq(rest, k + 1, Len(rest))

\* The elements of a finite set of integers in increasing order.
RECURSIVE SortedSeq(_)
SortedSeq(S) ==
    IF S = {} THEN <<>>
    ELSE LET x == CHOOSE y \in S : \A z \in S : y <= z
         IN  <<x>> \o SortedSeq(S \ {x})

\* The state of scan before its loop.
ScanStart ==
    [chunks |-> <<>>, block_log |-> <<>>, total_scanned |-> 0,
     healthy_blocks |-> 0, corrupt_blocks |-> 0, truncated_blocks |-> 0,
     unknown_codec_blocks |-> 0, recoverable_bytes |-> 0,
     bytes_scanned |-> SUPERBLOCK_SIZE, progress |-> <<>>, panicked |-> FALSE]

\* The progress callback at the end of a loop iteration; has_progress tells
\* whether the caller passed one.
Progress(acc, file_size_hint, has_progress) ==
    IF has_progress
      THEN [acc EXCEPT !.progress = Append(@,
              [scanned  |-> acc.bytes_scanned,
               estimate |-> IF file_size_hint > 0 THEN file_size_hint
                            ELSE acc.bytes_scanned * 2])]
      ELSE acc

\* The health verdict of a block whose header parsed at pos.
Verdict(d, file_size_hint, pos, header) ==
    IF from_uuid(header.codec_uuid) = NoCodec /\ header.codec_uuid # "UUID_NONE"
      THEN "UnknownCodec"
      ELSE LET stream_pos == pos + BLOCK_HEADER_SIZE
               remaining  == IF file_size_hint > stream_pos
                               THEN file_size_hint - stream_pos
                               ELSE IF d.len > stream_pos THEN d.len - stream_pos ELSE 0
           IN  IF remaining < header.comp_size THEN "TruncatedPayload" ELSE "Healthy"

\* Fault variant: after a header that fails validation the scanner skips a
\* whole header.
Resync_by_header(pos) == pos + BLOCK_HEADER_SIZE

\* reader.seek(SeekFrom::Start(pos + 1)) after a header that fails validation.
Resync(pos) == pos + 1

\* The iterations of the scan loop that start at a candidate pos whose header
\* fails validation and end before the next candidate that parses or that
\* runs past the end of the file, taken together: their number.  Each of
\* them seeks to Resync of its own position.
CorruptRun(d, pos) ==
    LET step == Resync(pos) - pos
        eof  == pos + (((d.len - BLOCK_HEADER_SIZE - pos) \div step) + 1) * step
        hits == {o \in DOMAIN d.blocks :
                    /\ o > pos
                    /\ (o - pos) % step = 0
                    /\ BlockHeader_read(d, o).ok}
        stop == CHOOSE q \in hits \cup {eof} : \A x \in hits \cup {eof} : q <= x
    IN  (stop - pos) \div step

\* The loop of scan with the stream at pos.  `header.file_offset +
\* header.orig_size as u64` is a 64-bit addition: when it overflows, a build
\* with overflow checks (the dev profile) panics and one without (the release
\* profile) wraps.
RECURSIVE ScanLoop(_, _, _, _, _, _)
ScanLoop(d, file_size_hint, has_progress, overflow_checks, pos, acc) ==
    LET Corrupt(n, step) ==
            LET at(i) == pos + (i - 1) * step
            IN  ScanLoop(d, file_size_hint, has_progress, overflow_checks,
                   Resync(at(n)),
                   [acc EXCEPT
                      !.total_scanned = @ + n,
                      !.corrupt_blocks = @ + n,
                      !.block_log = @ \o [i \in 1..n |->
                          [archive_offset |-> at(i), header |-> NoHeader,
                           health |-> "HeaderCorrupt"]],
                      !.bytes_scanned = at(n) + 1 + BLOCK_HEADER_SIZE,
                      !.progress = IF has_progress
                          THEN @ \o [i \in 1..n |->
                                 [scanned  |-> at(i) + 1 + BLOCK_HEADER_SIZE,
                                  estimate |-> IF file_size_hint > 0
                                                 THEN file_size_hint
                                                 ELSE (at(i) + 1 + BLOCK_HEADER_SIZE) * 2]]
                          ELSE @])
        Parsed(header, health, usable) ==
            LET sb == [archive_offset |-> pos, header |-> header, health |-> health]
                acc1 == [acc EXCEPT !.bytes_scanned = @ + BLOCK_HEADER_SIZE,
                                    !.total_scanned = @ + 1]
                acc2 == [acc1 EXCEPT
                   !.unknown_codec_blocks = IF health = "UnknownCodec" THEN @ + 1 ELSE @,
                   !.truncated_blocks = IF health = "TruncatedPayload" THEN @ + 1 ELSE @,
                   !.healthy_blocks = IF health = "Healthy" THEN @ + 1 ELSE @,
                   !.recoverable_bytes = IF health = "Healthy"
                                           THEN @ + header.orig_size ELSE @,
                   !.chunks = IF usable
                                THEN Append(@, [fid |-> header.file_id,
                                                key |-> header.file_offset,
                                                val |-> sb])
                                ELSE @,
                   !.block_log = Append(@, sb),
                   !.bytes_scanned = @ + header.comp_size]
            IN  IF /\ usable
                   /\ overflow_checks
                   /\ header.file_offset + header.orig_size >= U64
                  THEN [acc1 EXCEPT !.panicked = TRUE]
                ELSE IF header.block_type = "Index" THEN acc2
                ELSE ScanLoop(d, file_size_hint, has_progress, overflow_checks,
                              pos + BLOCK_HEADER_SIZE + header.comp_size,
                              Progress(acc2, file_size_hint, has_progress))
        Rated(header, health) ==
            Parsed(header, health, is_usable(health) /\ header.block_type = "Data")
        Read(parse_result) ==
            IF ~parse_result.ok
              THEN Corrupt(CorruptRun(d, pos), Resync(pos) - pos)
              ELSE Rated(parse_result.val,
                         Verdict(d, file_size_hint, pos, parse_result.val))
    IN  IF pos + BLOCK_HEADER_SIZE > d.len THEN acc
        ELSE Read(BlockHeader_read(d, pos))

\* FileIndexRecord::from_scan
from_scan(fid, size, refs) ==
    [id |-> fid, name |-> <<"file_", fid>>, block_refs |-> refs,
     original_size |-> size, compressed_size |-> 0]

\* The record scan builds for file id fid from the accumulated chunks.
ScanRecord(chunks, fid) ==
    LET Mine(c) == c.fid = fid
        v == StableSort(SelectSeq(chunks, Mine))
        refs == [i \in 1..Len(v) |->
                    [content_hash   |-> v[i].val.header.content_hash,
                     archive_offset |-> v[i].val.archive_offset,
                     intra_offset   |-> 0,
                     intra_length   |-> 0]]
        ends == {(v[i].val.header.file_offset + v[i].val.header.orig_size) % U64 :
                    i \in 1..Len(v)}
        size == CHOOSE e \in ends \cup {0} : \A x \in ends \cup {0} : x <= e
    IN  from_scan(fid, size, refs)

\* The loop of SixCyReader::scan_blocks with the stream at pos: it stops at
\* the first header that does not parse and at the Index block, passes over
\* Solid blocks, and accumulates Data blocks.  The extent addition panics on
\* overflow in a build with overflow checks.
RECURSIVE ScanBlocksLoop(_, _, _, _)
ScanBlocksLoop(d, overflow_checks, pos, acc) ==
    LET Next1(header, acc1) ==
            ScanBlocksLoop(d, overflow_checks,
                           pos + BLOCK_HEADER_SIZE + header.comp_size, acc1)
        Seen(header) ==
            CASE header.block_type = "Index" -> acc
              [] header.block_type = "Solid" -> Next1(header, acc)
              [] OTHER ->
                   IF overflow_checks /\ header.file_offset + header.orig_size >= U64
                     THEN [acc EXCEPT !.panicked = TRUE]
                     ELSE Next1(header,
                            [acc EXCEPT !.chunks = Append(@,
                                [fid |-> header.file_id,
                                 key |-> header.file_offset,
                                 val |-> [archive_offset |-> pos, header |-> header]])])
        Read(h) == IF ~h.ok THEN acc ELSE Seen(h.val)
    IN  Read(BlockHeader_read(d, pos))

\* SixCyReader::scan_blocks: the reconstructed index.
scan_blocks(d, overflow_checks) ==
    LET Built(acc, fids) ==
            [panicked |-> acc.panicked,
             index |-> compute_root_hash(
                 [records |-> [i \in 1..Len(fids) |-> ScanRecord(acc.chunks, fids[i])],
                  root_hash |-> <<"zero32">>])]
        Swept(acc) ==
            Built(acc, SortedSeq({acc.chunks[i].fid : i \in 1..Len(acc.chunks)}))
    IN  Swept(ScanBlocksLoop(d, overflow_checks, SUPERBLOCK_SIZE,
                             [chunks |-> <<>>, panicked |-> FALSE]))

\* Fault variant: the share of Healthy candidates is looked at before the
\* records.
Quality_percent_first(total_scanned, healthy_blocks, no_records) ==
    IF total_scanned = 0 THEN "Catastrophic"
    ELSE IF healthy_blocks * 100 >= 95 * total_scanned THEN "Full"
    ELSE IF healthy_blocks * 2 >= total_scanned THEN "Partial"
    ELSE IF no_records THEN "HeaderOnly"
    ELSE "Catastrophic"

\* The quality rating of scan.
Quality(total_scanned, healthy_blocks, no_records) ==
    IF total_scanned = 0 THEN "Catastrophic"
    ELSE IF no_records THEN "HeaderOnly"
    ELSE IF healthy_blocks * 100 >= 95 * total_scanned THEN "Full"
    ELSE IF healthy_blocks * 2 >= total_scanned THEN "Partial"
    ELSE "Catastrophic"

\* recovery::scan(reader, file_size_hint, progress): the report; progress is
\* the list of the callback's invocations, panicked tells that the call
\* panicked instead of returning.
scan(d, file_size_hint, has_progress, overflow_checks) ==
    LET Report(acc, records) ==
            [total_scanned        |-> acc.total_scanned,
             healthy_blocks       |-> acc.healthy_blocks,
             corrupt_blocks       |-> acc.corrupt_blocks,
             truncated_blocks     |-> acc.truncated_blocks,
             unknown_codec_blocks |-> acc.unknown_codec_blocks,
             bytes_scanned        |-> acc.bytes_scanned,
             block_log            |-> acc.block_log,
             index                |-> compute_root_hash(
                                        [records |-> records, root_hash |-> <<"zero32">>]),
             recoverable_bytes    |-> acc.recoverable_bytes,
             quality              |-> Quality(acc.total_scanned, acc.healthy_blocks,
                                              records = <<>>),
             progress             |-> acc.progress,
             panicked             |-> acc.panicked]
        Grouped(acc, fids) ==
            Report(acc, [i \in 1..Len(fids) |-> ScanRecord(acc.chunks, fids[i])])
        Swept(acc) ==
            Grouped(acc, SortedSeq({acc.chunks[i].fid : i \in 1..Len(acc.chunks)}))
    IN  Swept(ScanLoop(d, file_size_hint, has_progress, overflow_checks,
                       SUPERBLOCK_SIZE, ScanStart))

\* The chunk size extract_recoverable gives the new writer: 4 MiB.
RECOVERY_CHUNK_SIZE == 4 * 1024 * 1024

\* The name extract_recoverable gives the file rebuilt for file id fid.
RecoveredName(fid) == <<"recovered_file_", fid % U32>>

\* The inner loop of extract_recoverable: the decoded chunks of the blocks
\* from position i on, a block that fails to decode being skipped.
RECURSIVE ExtractData(_, _, _, _)
ExtractData(d, blocks, decryption_key, i) ==
    LET Decoded(dec) == IF dec.ok THEN dec.val ELSE <<>>
        Fetched(sb, blk) ==
            Decoded(IF blk.ok
                      THEN decode_block(sb.header, blk.val.payload, decryption_key)
                      ELSE blk)
        Salvaged(sb) == Fetched(sb, read_block_at(d, sb.archive_offset))
    IN  IF i > Len(blocks) THEN <<>>
        ELSE Salvaged(blocks[i].val) \o ExtractData(d, blocks, decryption_key, i + 1)

\* The per-file loop of extract_recoverable over file_ids from position i on.
RECURSIVE ExtractFiles(_, _, _, _, _, _)
ExtractFiles(st, d, usable, file_ids, decryption_key, i) ==
    LET Mine(c) == c.fid = file_ids[i]
        Rebuilt(data) ==
            IF data # <<>>
              THEN add_file(st, RecoveredName(file_ids[i]), data, "Zstd")
              ELSE st
    IN  IF i > Len(file_ids) THEN st
        ELSE ExtractFiles(
               Rebuilt(ExtractData(d, StableSort(SelectSeq(usable, Mine)),
                                   decryption_key, 1)),
               d, usable, file_ids, decryption_key, i + 1)

\* recovery::extract_recoverable(src, dst, decryption_key): the report and
\* the bytes written to dst.
extract_recoverable(d, decryption_key, overflow_checks) ==
    LET Usable(sb) == is_usable(sb.health) /\ sb.header.block_type = "Data"
        Tagged(log) ==
            [i \in 1..Len(log) |->
                [fid |-> log[i].header.file_id,
                 key |-> log[i].header.file_offset,
                 val |-> log[i]]]
        Written(report, dst) == [report |-> report, dst |-> dst.d]
        Rebuild(report, usable) ==
            Written(report,
                    IF report.panicked
                      THEN with_options(RECOVERY_CHUNK_SIZE, NoKey)
                      ELSE finalize(ExtractFiles(
                             with_options(RECOVERY_CHUNK_SIZE, NoKey), d, usable,
                             SortedSeq({usable[i].fid : i \in 1..Len(usable)}),
                             decryption_key, 1)))
        Salvage(report) ==
            Rebuild(report, Tagged(SelectSeq(report.block_log, Usable)))
    IN  Salvage(scan(d, d.len, FALSE, overflow_checks))

\* ------------------------------------------------------------------- perf
\* The closure of compress_chunks_parallel applied to chunk i (from 0):
\* hash, get_codec, compress. fails holds the chunks whose compress call
\* returns CodecError::Compression; the level does not enter the model's
\* frames.
CompressOne(chunks, codec, fails, i) ==
    IF i \in fails THEN Err("Compression")
    ELSE Ok([chunk_index  |-> i,
             content_hash |-> blake3(chunks[i + 1]),
             orig_size    |-> Len(chunks[i + 1]),
             payload      |-> compress(codec, chunks[i + 1])])

\* Fault variant: the results are gathered in the order the workers finish.
Collected_in_finish_order(results, order) ==
    [k \in 1..Len(order) |-> results[order[k] + 1]]

\* par_iter().enumerate().map(..).collect() into a Vec: the result of item i
\* lands in slot i whatever order the workers finish in.
Collected(results, order) ==
    [k \in 1..Len(results) |-> results[k]]

\* for r in results { out.push(r?) }; Ok(out)
RECURSIVE Surface(_, _)
Surface(results, out) ==
    IF results = <<>> THEN Ok(out)
    ELSE IF ~Head(results).ok THEN Head(results)
    ELSE Surface(Tail(results), Append(out, Head(results).val))

\* compress_chunks_parallel without the parallel feature: the iterator is
\* collected into a Result from chunk i on and stops at the first error.
RECURSIVE compress_chunks_sequential(_, _, _, _, _)
compress_chunks_sequential(chunks, codec, fails, i, out) ==
    LET Got(r) ==
            IF ~r.ok THEN r
            ELSE compress_chunks_sequential(chunks, codec, fails, i + 1,
                                            Append(out, r.val))
    IN  IF i >= Len(chunks) THEN Ok(out)
        ELSE Got(CompressOne(chunks, codec, fails, i))

\* (n as u16).to_le_bytes(), at the scaled width, low byte first.
U16Le(n) == <<(n % (MaxCount + 1)) % 256, (n % (MaxCount + 1)) \div 256>>

\* u16::from_le_bytes([lo, hi])
FromU16Le(lo, hi) == lo + 256 * hi

\* Fault variant: a run is counted to its end, beyond what a frame can hold.
RECURSIVE RunLen_uncapped(_, _, _)
RunLen_uncapped(data, i, run_len) ==
    IF i + run_len < Len(data) /\ data[i + run_len + 1] = data[i + 1]
      THEN RunLen_uncapped(data, i, run_len + 1)
      ELSE run_len

\* rle_encode, the run detection loop: the length of the run at i (from 0).
RECURSIVE RunLen(_, _, _)
RunLen(data, i, run_len) ==
    IF i + run_len < Len(data) /\ data[i + run_len + 1] = data[i + 1]
                               /\ run_len < MaxCount
      THEN RunLen(data, i, run_len + 1)
      ELSE run_len

\* rle_encode, the peek loop: equal bytes from i on, counted up to 4.
RECURSIVE Peek(_, _, _)
Peek(data, i, peek) ==
    IF i + peek < Len(data) /\ data[i + peek + 1] = data[i + 1] /\ peek < 4
      THEN Peek(data, i, peek + 1)
      ELSE peek

\* rle_encode, the literal loop: literal bytes from i on until a run of 4
\* begins, the frame is full or the data ends.
RECURSIVE LitLen(_, _, _)
LitLen(data, i, lit_len) ==
    IF i < Len(data) /\ lit_len < MaxCount /\ Peek(data, i, 0) < 4
      THEN LitLen(data, i + 1, lit_len + 1)
      ELSE lit_len

\* rle_encode, the outer loop from position i with out written so far.
RECURSIVE RleFrames(_, _, _)
RleFrames(data, i, out) ==
    LET Lit(lit_len) ==
            RleFrames(data, i + lit_len,
                      out \o <<0>> \o U16Le(lit_len) \o SubSeq(data, i + 1, i + lit_len))
        Run(run_len) ==
            IF run_len >= 4
              THEN RleFrames(data, i + run_len,
                             out \o <<1>> \o U16Le(run_len) \o <<data[i + 1]>>)
              ELSE Lit(LitLen(data, i, 0))
    IN  IF i >= Len(data) THEN out ELSE Run(RunLen(data, i, 1))

\* perf::rle_encode
rle_encode(data) == IF data = <<>> THEN <<>> ELSE RleFrames(data, 0, <<>>)

\* Option<Vec<u8>>
Some(v) == [some |-> TRUE, val |-> v]
None == [some |-> FALSE, val |-> <<>>]

\* perf::rle_decode, the loop from position i with out decoded so far.
RECURSIVE RleDecodeFrom(_, _, _)
RleDecodeFrom(data, i, out) ==
    LET Frame(frame_type, count, j) ==
            CASE frame_type = 0 ->
                   IF j + count > Len(data) THEN None
                   ELSE RleDecodeFrom(data, j + count,
                                      out \o SubSeq(data, j + 1, j + count))
              [] frame_type = 1 ->
                   IF j >= Len(data) THEN None
                   ELSE RleDecodeFrom(data, j + 1,
                                      out \o [k \in 1..count |-> data[j + 1]])
              [] OTHER -> None
    IN  IF i >= Len(data) THEN Some(out)
        ELSE IF i + 1 + 2 > Len(data) THEN None
        ELSE Frame(data[i + 1], FromU16Le(data[i + 2], data[i + 3]), i + 3)

\* perf::rle_decode
rle_decode(data) == RleDecodeFrom(data, 0, <<>>)

\* WriteBuffer::new
WriteBuffer_new(capacity) ==
    [inner |-> <<>>, buf |-> <<>>, capacity |-> capacity, bytes_written |-> 0]

\* WriteBuffer::flush_if_full
flush_if_full(wb) ==
    IF Len(wb.buf) >= wb.capacity
      THEN [wb EXCEPT !.inner = @ \o wb.buf, !.buf = <<>>]
      ELSE wb

\* Fault variant: a write that bypasses the buffer leaves the buffered bytes
\* where they are.
WriteBuffer_write_no_drain(wb, buf) ==
    IF Len(buf) >= wb.capacity
      THEN [wb EXCEPT !.inner = @ \o buf, !.bytes_written = @ + Len(buf)]
      ELSE [flush_if_full([wb EXCEPT !.buf = @ \o buf]) EXCEPT
               !.bytes_written = @ + Len(buf)]

\* <WriteBuffer as Write>::write
WriteBuffer_write(wb, buf) ==
    IF Len(buf) >= wb.capacity
      THEN [wb EXCEPT !.inner = (@ \o wb.buf) \o buf, !.buf = <<>>,
                      !.bytes_written = @ + Len(buf)]
      ELSE [flush_if_full([wb EXCEPT !.buf = @ \o buf]) EXCEPT
               !.bytes_written = @ + Len(buf)]

\* <WriteBuffer as Write>::flush
WriteBuffer_flush(wb) ==
    IF wb.buf # <<>> THEN [wb EXCEPT !.inner = @ \o wb.buf, !.buf = <<>>] ELSE wb

\* ---------------------------------------------------------------- actions
\* No report and no destination file.
NoReport ==
    [total_scanned |-> 0, healthy_blocks |-> 0, corrupt_blocks |-> 0,
     truncated_blocks |-> 0, unknown_codec_blocks |-> 0, bytes_scanned |-> 0,
     block_log |-> <<>>, index |-> [records |-> <<>>, root_hash |-> <<"zero32">>],
     recoverable_bytes |-> 0, quality |-> "none", progress |-> <<>>,
     panicked |-> FALSE]

NoDisk == [sb |-> ZeroSuperblock, blocks |-> <<>>, raw |-> {}, len |-> 0]

NoCall == [op |-> "none", id |-> 0, offset |-> 0, buflen |-> 0, io |-> <<>>,
           used |-> {}, touched |-> {}, ok |-> TRUE, err |-> "none", val |-> <<>>,
           report |-> NoReport, dst |-> NoDisk]

\* The caller constructs a writer over a fresh file.
Init ==
    /\ \E chunk_size \in 0..MaxChunk, encryption_key \in {NoKey, "k1"} :
          LET st == with_options(chunk_size, encryption_key)
          IN  writer = st.w /\ disk = st.d
    /\ hist = [added |-> <<>>, nfinal |-> 0, npost |-> 0, op |-> "new",
               ret |-> "Ok", tamper |-> "none", twice |-> FALSE]
    /\ reader = NoReader
    /\ rd = NoCall

\* The writer is driven until the file is first handed to a reader or
\* damaged, and for at most MaxPost calls after its first finalize.
Writing ==
    /\ rd.op = "none"
    /\ hist.tamper = "none"
    /\ hist.nfinal = 0 \/ hist.npost < MaxPost

\* The caller's record of a writer call that returned Ok(()); twice tells
\* that the call and the one before it were both start_solid_session.
Called(op) ==
    [hist EXCEPT !.op = op, !.ret = "Ok",
                 !.npost = IF hist.nfinal > 0 THEN @ + 1 ELSE @,
                 !.twice = op = "begin_solid" /\ hist.op = "begin_solid"]

\* The name the caller gives its k-th file (k from 0): names are distinct.
CallerName(k) == <<"file", k>>

\* writer.add_file(name, data, codec) by a caller that adds at most limit
\* files.  The caller notes the codec the file is to be stored with: the
\* codec of the open session, or its own argument in normal mode.
AddFileUpTo(limit, data, codec) ==
    /\ Writing
    /\ Len(writer.index.records) < limit
    /\ \E st \in {add_file([w |-> writer, d |-> disk], CallerName(Len(hist.added)),
                          data, codec)} :
           /\ writer' = st.w
           /\ disk' = st.d
    /\ hist' = [Called("add_file") EXCEPT
                  !.added = Append(@, [data  |-> data,
                                       stored_with |->
                                           IF writer.solid_codec # NoCodec
                                             THEN writer.solid_codec ELSE codec,
                                       solid |-> writer.solid_codec # NoCodec,
                                       first |-> writer.solid_file_ranges = <<>>])]
    /\ UNCHANGED <<reader, rd>>

\* writer.add_file(name, data, codec)
AddFile(data, codec) == AddFileUpTo(MaxFiles, data, codec)

\* writer.add_file(name, data, codec) returns an error at chunk fail_at.
AddFileFails(data, codec, fail_at) ==
    /\ Writing
    /\ writer.solid_codec = NoCodec
    /\ fail_at * writer.chunk_size < Len(data)
    /\ \E st \in {add_file_failing([w |-> writer, d |-> disk],
                                   CallerName(Len(hist.added)), data, codec, fail_at)} :
           /\ cas_lookup(st.w.block_dedup,
                         blake3(Chunk(data, writer.chunk_size, fail_at))) = {}
           /\ writer' = st.w
           /\ disk' = st.d
    /\ hist' = [hist EXCEPT !.op = "add_file", !.ret = "Err", !.twice = FALSE,
                            !.npost = IF hist.nfinal > 0 THEN @ + 1 ELSE @]
    /\ UNCHANGED <<reader, rd>>

\* writer.start_solid_session(codec)
BeginSolid(codec) ==
    /\ Writing
    /\ \E st \in {start_solid_session([w |-> writer, d |-> disk], codec)} :
           /\ writer' = st.w
           /\ disk' = st.d
    /\ hist' = Called("begin_solid")
    /\ UNCHANGED <<reader, rd>>

\* writer.flush_solid_session()
EndSolid ==
    /\ Writing
    /\ \E st \in {flush_solid_session([w |-> writer, d |-> disk])} :
           /\ writer' = st.w
           /\ disk' = st.d
    /\ hist' = Called("end_solid")
    /\ UNCHANGED <<reader, rd>>

\* writer.flush_solid_session(), writer.start_solid_session(codec) or
\* writer.finalize() (op says which) returns the error of the flush it
\* begins with.
FlushFails(op) ==
    /\ Writing
    /\ writer.solid_codec # NoCodec
    /\ writer.solid_buffer # <<>>
    /\ \E st \in {flush_solid_session_failing([w |-> writer, d |-> disk])} :
           /\ writer' = st.w
           /\ disk' = st.d
    /\ hist' = [hist EXCEPT !.op = op, !.ret = "Err", !.twice = FALSE,
                            !.npost = IF hist.nfinal > 0 THEN @ + 1 ELSE @]
    /\ UNCHANGED <<reader, rd>>

\* writer.finalize()
Finalize ==
    /\ Writing
    /\ \E st \in {finalize([w |-> writer, d |-> disk])} :
           /\ writer' = st.w
           /\ disk' = st.d
    /\ hist' = [Called("finalize") EXCEPT !.nfinal = @ + 1]
    /\ UNCHANGED <<reader, rd>>

\* SixCyReader::with_key(file, key)
Open(key) ==
    /\ ~reader.open
    /\ rd.op = "none"
    /\ \E r \in {with_key(disk, key)} :
           /\ reader' = r.reader
           /\ rd' = [NoCall EXCEPT !.op = "open", !.io = r.io, !.ok = r.ok,
                                   !.err = r.err]
    /\ UNCHANGED <<writer, disk, hist>>

\* reader.unpack_file(file_id)
Unpack(file_id) ==
    /\ reader.open
    /\ \E r \in {unpack_file(reader, disk, file_id)} :
           rd' = [NoCall EXCEPT !.op = "unpack_file", !.id = file_id, !.used = r.used,
                                !.touched = r.touched, !.ok = r.ok, !.err = r.err, !.val = r.val]
    /\ UNCHANGED <<writer, disk, hist, reader>>

\* reader.read_at(file_id, offset, buf) with buf.len() = buflen
ReadAt(file_id, offset, buflen) ==
    /\ reader.open
    /\ \E r \in {read_at(reader, disk, file_id, offset, buflen)} :
           rd' = [NoCall EXCEPT !.op = "read_at", !.id = file_id, !.offset = offset,
                                !.buflen = buflen, !.used = r.used,
                                !.touched = r.touched,
                                !.ok = r.ok, !.err = r.err, !.val = r.val]
    /\ UNCHANGED <<writer, disk, hist, reader>>

\* The finalized file lies closed: no writer call is pending, no reader has
\* opened it, and nothing has damaged it yet.
AtRest ==
    /\ hist.nfinal = 1
    /\ hist.npost = 0
    /\ hist.tamper = "none"
    /\ ~reader.open
    /\ rd.op = "none"

\* What can go wrong with the 84 header bytes of a block, by the check of
\* BlockHeader::read that catches it: bytes changed under the stored CRC32,
\* or a header rewritten with a matching CRC32 and a wrong magic or version.
HeaderFaults == {"crc", "magic", "version"}

\* The stored file is damaged in the header of the Data or Solid block at off.
TamperHeader(off, fault) ==
    /\ AtRest
    /\ off \in DOMAIN disk.blocks
    /\ disk.blocks[off].header.block_type \in {"Data", "Solid"}
    /\ disk' = [disk EXCEPT !.blocks[off].hstate = fault]
    /\ hist' = [hist EXCEPT !.tamper = "header"]
    /\ UNCHANGED <<writer, reader, rd>>

\* The stored file is damaged in the payload bytes of the Data or Solid block
\* at off (ciphertext, nonce or tag when the block is encrypted).
TamperPayload(off) ==
    /\ AtRest
    /\ off \in DOMAIN disk.blocks
    /\ disk.blocks[off].header.block_type \in {"Data", "Solid"}
    /\ PayloadLen(disk.blocks[off].payload) > 0
    /\ disk' = [disk EXCEPT !.blocks[off].payload.dmg = TRUE]
    /\ hist' = [hist EXCEPT !.tamper = "payload"]
    /\ UNCHANGED <<writer, reader, rd>>

\* The superblock is rewritten with one more required codec UUID, one that
\* CodecId::from_uuid does not know, placed first or last in the list; the
\* superblock CRC32 is recomputed (crc_ok) or left stale.
CraftSuperblock(first, crc_ok) ==
    /\ AtRest
    /\ disk' = [disk EXCEPT
                  !.sb.required_codec_uuids =
                      IF first THEN <<"UUID_UNKNOWN">> \o @
                               ELSE Append(@, "UUID_UNKNOWN"),
                  !.sb.crc_ok = crc_ok]
    /\ hist' = [hist EXCEPT !.tamper = "superblock"]
    /\ UNCHANGED <<writer, reader, rd>>

\* Where a file can be cut: inside the superblock, at its end, and around
\* the header and the payload of every block.
CutPoints ==
    ({0, SUPERBLOCK_SIZE - 1, SUPERBLOCK_SIZE}
        \cup {o + k : o \in DOMAIN disk.blocks,
                      k \in {1, BLOCK_HEADER_SIZE - 1, BLOCK_HEADER_SIZE,
                             BLOCK_HEADER_SIZE + 1}}
        \cup {o + BlockLen(disk.blocks[o]) - 1 : o \in DOMAIN disk.blocks})
    \cap 0..(disk.len - 1)

\* The stored file loses its bytes from offset n on.
Truncate(n) ==
    /\ rd.op = "none"
    /\ hist.tamper = "none"
    /\ n < disk.len
    /\ disk' = [disk EXCEPT !.len = n]
    /\ hist' = [hist EXCEPT !.tamper = "truncate"]
    /\ UNCHANGED <<writer, reader, rd>>

\* Lengths of a file of garbage: none, short of a superblock, short of one
\* block header by a byte, and one and two candidate positions.
GarbageLens ==
    {0, SUPERBLOCK_SIZE - 1, SUPERBLOCK_SIZE,
     SUPERBLOCK_SIZE + BLOCK_HEADER_SIZE - 1, SUPERBLOCK_SIZE + BLOCK_HEADER_SIZE,
     SUPERBLOCK_SIZE + BLOCK_HEADER_SIZE + 1}

\* The file is n bytes of garbage: no superblock and no block header in it
\* verifies.
Scribble(n) ==
    /\ rd.op = "none"
    /\ hist.tamper = "none"
    /\ hist.op = "new"
    /\ disk' = [sb |-> [ZeroSuperblock EXCEPT !.magic = "garbage"],
                blocks |-> <<>>, raw |-> {}, len |-> n]
    /\ hist' = [hist EXCEPT !.tamper = "garbage"]
    /\ UNCHANGED <<writer, reader, rd>>

\* A block header made by hand, with a matching CRC32, and no payload bytes,
\* is appended to a file that has no Index block yet.
Craft(block_type, codec_uuid, file_offset, orig_size, comp_size) ==
    /\ rd.op = "none"
    /\ hist.tamper = "none"
    /\ hist.nfinal = 0
    /\ LET header == [header_version |-> BLOCK_HEADER_VERSION,
                      header_size    |-> BLOCK_HEADER_SIZE,
                      block_type     |-> block_type,
                      flags          |-> 0,
                      codec_uuid     |-> codec_uuid,
                      file_id        |-> 0,
                      file_offset    |-> file_offset,
                      orig_size      |-> orig_size,
                      comp_size      |-> comp_size,
                      content_hash   |-> blake3(<<>>)]
           st == WriteBlock([w |-> [writer EXCEPT !.pos = disk.len], d |-> disk],
                            header, plain(compress("None", <<>>)))
       IN  disk' = st.d
    /\ hist' = [hist EXCEPT !.tamper = "craft"]
    /\ UNCHANGED <<writer, reader, rd>>

\* Extension lengths a later version of the format gives a block header.
ExtLens == {1, 16}

\* The file as a writer of a later format version leaves it when it gives
\* the last Data or Solid block a header of 84 + ext bytes: header_size says
\* so, ext extension bytes follow the 84 known ones, and the Index block, the
\* recovery map and the superblock's index_offset lie ext bytes further on.
ExtendLastBlock(ext) ==
    /\ AtRest
    /\ \E o \in DOMAIN disk.blocks :
          /\ disk.blocks[o].header.block_type \in {"Data", "Solid"}
          /\ \A o2 \in DOMAIN disk.blocks :
                disk.blocks[o2].header.block_type \in {"Data", "Solid"} => o2 <= o
          /\ LET Shift(x) == IF x > o THEN x + ext ELSE x
                 offs == {Shift(x) : x \in DOMAIN disk.blocks}
                 From(y) == CHOOSE x \in DOMAIN disk.blocks : Shift(x) = y
             IN  disk' = [disk EXCEPT
                    !.blocks = [y \in offs |->
                        IF y = o
                          THEN [disk.blocks[o] EXCEPT
                                   !.header.header_size = BLOCK_HEADER_SIZE + ext]
                          ELSE [disk.blocks[From(y)] EXCEPT !.off = y]],
                    !.raw = {[r EXCEPT !.off = Shift(r.off)] : r \in disk.raw},
                    !.sb.index_offset = Shift(@),
                    !.len = @ + ext]
    /\ hist' = [hist EXCEPT !.tamper = "extension"]
    /\ UNCHANGED <<writer, reader, rd>>

\* recovery::scan(file, file_size_hint, progress) in a build with or without
\* overflow checks.
Scan(file_size_hint, has_progress, overflow_checks) ==
    /\ rd.op = "none"
    /\ \E report \in {scan(disk, file_size_hint, has_progress, overflow_checks)} :
           rd' = [NoCall EXCEPT !.op = "scan", !.offset = file_size_hint,
                                !.ok = ~report.panicked,
                                !.err = IF report.panicked THEN "panic" ELSE "none",
                                !.report = report]
    /\ UNCHANGED <<writer, disk, hist, reader>>

\* recovery::extract_recoverable(src, dst, key)
ExtractRecoverable(key, overflow_checks) ==
    /\ rd.op = "none"
    /\ \E r \in {extract_recoverable(disk, key, overflow_checks)} :
           rd' = [NoCall EXCEPT !.op = "extract_recoverable",
                                !.ok = ~r.report.panicked,
                                !.err = IF r.report.panicked THEN "panic" ELSE "none",
                                !.report = r.report, !.dst = r.dst]
    /\ UNCHANGED <<writer, disk, hist, reader>>

\* The writer alone, driven by a caller that may go on after finalize.
Next ==
    \/ \E data \in DataSet, codec \in CodecIds : AddFile(data, codec)
    \/ \E codec \in CodecIds : BeginSolid(codec)
    \/ EndSolid
    \/ Finalize

Spec == Init /\ [][Next]_vars

\* A caller that finalizes once and then only reads: the file is reopened
\* with the key it was written with.
Orderly(A) == hist.nfinal = 0 /\ A

NextR ==
    \/ \E data \in Ramps, codec \in CodecIds : Orderly(AddFile(data, codec))
    \/ \E codec \in CodecIds : Orderly(BeginSolid(codec))
    \/ Orderly(EndSolid)
    \/ Orderly(Finalize)
    \/ Open(writer.encryption_key)
    \/ \E file_id \in 0..MaxFiles :
          /\ rd.op = "open"
          /\ file_id <= Len(reader.index.records)
          /\ Unpack(file_id)

SpecR == Init /\ [][NextR]_vars

\* The orderly caller up to its finalize, with no reader.
NextW ==
    \/ \E data \in Ramps, codec \in CodecIds : Orderly(AddFile(data, codec))
    \/ \E codec \in CodecIds : Orderly(BeginSolid(codec))
    \/ Orderly(EndSolid)
    \/ Orderly(Finalize)

SpecW == Init /\ [][NextW]_vars

\* The same caller when the flush of a solid session can return an error.
NextM ==
    \/ \E data \in Ramps, codec \in CodecIds : Orderly(AddFile(data, codec))
    \/ \E codec \in CodecIds : Orderly(BeginSolid(codec))
    \/ Orderly(EndSolid)
    \/ Orderly(Finalize)
    \/ \E op \in {"end_solid", "begin_solid", "finalize"} : Orderly(FlushFails(op))

SpecM == Init /\ [][NextM]_vars

\* A writer of at most MaxTampered files that is finalized or abandoned at
\* any point, and the file it leaves is opened, or scanned as scan_file does
\* or without a size hint.
NextO ==
    \/ \E data \in Ramps, codec \in CodecIds :
          /\ Len(writer.index.records) < MaxTampered
          /\ Orderly(AddFile(data, codec))
    \/ \E codec \in CodecIds : Orderly(BeginSolid(codec))
    \/ Orderly(EndSolid)
    \/ Orderly(Finalize)
    \/ Open(writer.encryption_key)
    \/ \E file_size_hint \in {0, disk.len}, overflow_checks \in BOOLEAN :
          Scan(file_size_hint, TRUE, overflow_checks)

SpecO == Init /\ [][NextO]_vars

\* A file of at most MaxTampered files is scanned the way scan_file does:
\* a finalized archive, whole, with one damaged block header or cut short,
\* or an unfinished one with a hand-made Data header appended whose codec
\* is unknown or whose payload is missing.
NextI ==
    \/ \E data \in Ramps, codec \in CodecIds :
          /\ Len(writer.index.records) < MaxTampered
          /\ Orderly(AddFile(data, codec))
    \/ \E codec \in CodecIds : Orderly(BeginSolid(codec))
    \/ Orderly(EndSolid)
    \/ Orderly(Finalize)
    \/ \E off \in DOMAIN disk.blocks, fault \in HeaderFaults : TamperHeader(off, fault)
    \/ \E n \in CutPoints :
          /\ hist.nfinal = 1
          /\ Truncate(n)
    \/ \E codec_uuid \in {"UUID_NONE", "UUID_UNKNOWN"}, comp_size \in {0, 1} :
          Craft("Data", codec_uuid, 0, 1, comp_size)
    \/ \E overflow_checks \in BOOLEAN :
          /\ hist.nfinal = 1 \/ hist.tamper = "craft"
          /\ Scan(disk.len, TRUE, overflow_checks)

SpecI == Init /\ [][NextI]_vars

\* Files of one byte and of about as many bytes as a 32-bit size field counts.
BigFiles == {[i \in 1..n |-> 0] : n \in {1, U32 - 1, U32}}

\* A caller that stores big files in solid sessions.
NextZ ==
    \/ \E data \in BigFiles, codec \in CodecIds :
          /\ writer.solid_codec # NoCodec
          /\ Orderly(AddFile(data, codec))
    \/ \E codec \in CodecIds : Orderly(BeginSolid(codec))
    \/ Orderly(EndSolid)
    \/ Orderly(Finalize)

SpecZ == Init /\ [][NextZ]_vars

\* The empty file and the one-byte file.
ShortFiles == {<<>>, <<0>>}

\* The orderly caller of up to MaxShortFiles short files: the same bytes can
\* be added in a session, in normal mode, and once more.
NextD ==
    \/ \E data \in ShortFiles, codec \in CodecIds :
          Orderly(AddFileUpTo(MaxShortFiles, data, codec))
    \/ \E codec \in CodecIds : Orderly(BeginSolid(codec))
    \/ Orderly(EndSolid)
    \/ Orderly(Finalize)

SpecD == Init /\ [][NextD]_vars

\* The same caller when it never opens a solid session.
NextN ==
    \/ \E data \in Samples, codec \in CodecIds : Orderly(AddFile(data, codec))
    \/ Orderly(Finalize)
    \/ Open(writer.encryption_key)
    \/ \E file_id \in 0..MaxFiles :
          /\ rd.op = "open"
          /\ file_id <= Len(reader.index.records)
          /\ Unpack(file_id)

SpecN == Init /\ [][NextN]_vars

\* An archive of at most MaxTampered files is written by an orderly caller,
\* may then be damaged in one place, and is reopened and read with one call.
NextT ==
    \/ \E data \in Ramps, codec \in CodecIds :
          /\ Len(writer.index.records) < MaxTampered
          /\ Orderly(AddFile(data, codec))
    \/ \E codec \in CodecIds : Orderly(BeginSolid(codec))
    \/ Orderly(EndSolid)
    \/ Orderly(Finalize)
    \/ \E off \in DOMAIN disk.blocks, fault \in HeaderFaults : TamperHeader(off, fault)
    \/ \E off \in DOMAIN disk.blocks : TamperPayload(off)
    \/ \E first, crc_ok \in BOOLEAN : CraftSuperblock(first, crc_ok)
    \/ Open(writer.encryption_key)
    \/ \E file_id \in 0..MaxFiles :
          /\ rd.op = "open"
          /\ file_id <= Len(reader.index.records)
          /\ Unpack(file_id)
    \/ \E file_id \in 0..(MaxFiles - 1), offset \in 0..MaxLen, buflen \in 0..MaxBuf :
          /\ rd.op = "open"
          /\ file_id < Len(reader.index.records)
          /\ ReadAt(file_id, offset, buflen)

SpecT == Init /\ [][NextT]_vars

\* An orderly caller writes an archive through Archive::add_file, which
\* passes one default codec for every file, reopens it with the writer's key
\* and makes one read_at call.
NextA ==
    \/ \E data \in Ramps : Orderly(AddFile(data, "Zstd"))
    \/ \E codec \in CodecIds : Orderly(BeginSolid(codec))
    \/ Orderly(EndSolid)
    \/ Orderly(Finalize)
    \/ Open(writer.encryption_key)
    \/ \E file_id \in 0..(MaxFiles - 1), offset \in 0..MaxLen, buflen \in 0..MaxBuf :
          /\ rd.op = "open"
          /\ file_id < Len(reader.index.records)
          /\ ReadAt(file_id, offset, buflen)

SpecA == Init /\ [][NextA]_vars

\* A file of at most MaxTampered files, finished or not, is damaged in one
\* place (a header, a cut, garbage, a crafted header) or not at all and then
\* scanned.
NextS ==
    \/ \E data \in Ramps, codec \in CodecIds :
          /\ Len(writer.index.records) < MaxTampered
          /\ Orderly(AddFile(data, codec))
    \/ \E codec \in CodecIds : Orderly(BeginSolid(codec))
    \/ Orderly(EndSolid)
    \/ Orderly(Finalize)
    \/ \E off \in DOMAIN disk.blocks, fault \in HeaderFaults : TamperHeader(off, fault)
    \/ \E n \in CutPoints : Truncate(n)
    \/ \E n \in GarbageLens : Scribble(n)
    \/ \E block_type \in {"Data", "Index"}, codec_uuid \in {"UUID_NONE", "UUID_UNKNOWN"},
          file_offset \in {0, U64 - 1}, orig_size \in {0, 1}, comp_size \in {0, 1} :
          Craft(block_type, codec_uuid, file_offset, orig_size, comp_size)
    \/ \E file_size_hint \in {0, disk.len, disk.len + 1}, overflow_checks \in BOOLEAN :
          Scan(file_size_hint, TRUE, overflow_checks)

SpecS == Init /\ [][NextS]_vars

\* A finalized archive of at most MaxTampered files has one block header
\* damaged and is scanned the way scan_file does: with the file's length as
\* the hint.
NextH ==
    \/ \E data \in Ramps, codec \in CodecIds :
          /\ Len(writer.index.records) < MaxTampered
          /\ Orderly(AddFile(data, codec))
    \/ \E codec \in CodecIds : Orderly(BeginSolid(codec))
    \/ Orderly(EndSolid)
    \/ Orderly(Finalize)
    \/ \E off \in DOMAIN disk.blocks, fault \in HeaderFaults : TamperHeader(off, fault)
    \/ \E overflow_checks \in BOOLEAN :
          /\ hist.nfinal = 1
          /\ Scan(disk.len, TRUE, overflow_checks)

SpecH == Init /\ [][NextH]_vars

\* A normal-mode archive is written and finalized, may have one block
\* damaged, and is handed to extract_recoverable with the writer's key.
NextX ==
    \/ \E data \in Samples, codec \in CodecIds : Orderly(AddFile(data, codec))
    \/ Orderly(Finalize)
    \/ \E off \in DOMAIN disk.blocks, fault \in HeaderFaults : TamperHeader(off, fault)
    \/ \E off \in DOMAIN disk.blocks : TamperPayload(off)
    \/ \E overflow_checks \in BOOLEAN :
          /\ hist.nfinal = 1
          /\ ExtractRecoverable(writer.encryption_key, overflow_checks)

SpecX == Init /\ [][NextX]_vars

\* A file of at most MaxTampered files, finished or not, whole, with one
\* damaged payload or with a crafted header appended, is handed to
\* extract_recoverable with the writer's key.
NextJ ==
    \/ \E data \in Samples, codec \in CodecIds :
          /\ Len(writer.index.records) < MaxTampered
          /\ Orderly(AddFile(data, codec))
    \/ Orderly(Finalize)
    \/ \E off \in DOMAIN disk.blocks : TamperPayload(off)
    \/ \E block_type \in {"Data", "Index"}, codec_uuid \in {"UUID_NONE", "UUID_UNKNOWN"},
          file_offset \in {0, U64 - 1}, orig_size \in {0, 1}, comp_size \in {0, 1} :
          Craft(block_type, codec_uuid, file_offset, orig_size, comp_size)
    \/ \E overflow_checks \in BOOLEAN :
          ExtractRecoverable(writer.encryption_key, overflow_checks)

SpecJ == Init /\ [][NextJ]_vars

\* The stored file is damaged in the header of its Index block.
TamperIndex(fault) ==
    /\ AtRest
    /\ disk' = [disk EXCEPT !.blocks[writer.superblock.index_offset].hstate = fault]
    /\ hist' = [hist EXCEPT !.tamper = "index"]
    /\ UNCHANGED <<writer, reader, rd>>

\* reader.scan_blocks() on an open reader.
ScanBlocks(overflow_checks) ==
    /\ reader.open
    /\ rd.op = "open"
    /\ \E r \in {scan_blocks(disk, overflow_checks)} :
          rd' = [NoCall EXCEPT !.op = "scan_blocks", !.ok = ~r.panicked,
                               !.err = IF r.panicked THEN "panic" ELSE "none",
                               !.val = <<r.index>>]
    /\ UNCHANGED <<writer, disk, hist, reader>>

\* A normal-mode archive is written and finalized; it is left whole, loses
\* its tail, or has the header of its Index block damaged; it is opened with
\* the writer's key and, when the open succeeds, scan_blocks is called.
NextG ==
    \/ \E data \in Samples, codec \in CodecIds : Orderly(AddFile(data, codec))
    \/ Orderly(Finalize)
    \/ \E fault \in HeaderFaults : TamperIndex(fault)
    \/ \E n \in CutPoints : AtRest /\ n >= SUPERBLOCK_SIZE /\ Truncate(n)
    \/ hist.nfinal = 1 /\ Open(writer.encryption_key)
    \/ \E overflow_checks \in BOOLEAN : ScanBlocks(overflow_checks)

SpecG == Init /\ [][NextG]_vars

\* The keys a file is opened with: none (Archive::open), the key derived
\* from the writer's password, the key derived from another password.
OpenKeys == {NoKey, "k1", "k2"}

\* An orderly caller writes an archive; it is reopened with any key and one
\* file is read.
NextK ==
    \/ \E data \in Ramps, codec \in CodecIds : Orderly(AddFile(data, codec))
    \/ \E codec \in CodecIds : Orderly(BeginSolid(codec))
    \/ Orderly(EndSolid)
    \/ Orderly(Finalize)
    \/ \E key \in OpenKeys : hist.nfinal = 1 /\ Open(key)
    \/ \E file_id \in 0..(MaxFiles - 1) :
          /\ rd.op = "open"
          /\ file_id < Len(reader.index.records)
          /\ Unpack(file_id)

SpecK == Init /\ [][NextK]_vars

\* An orderly caller of Archive::add_file (one default codec) some of whose
\* calls return an error.
NextE ==
    \/ \E data \in Ramps : Orderly(AddFile(data, "Zstd"))
    \/ \E data \in Ramps, fail_at \in 0..(MaxLen - 1) :
          Orderly(AddFileFails(data, "Zstd", fail_at))
    \/ \E codec \in CodecIds : Orderly(BeginSolid(codec))
    \/ Orderly(EndSolid)
    \/ Orderly(Finalize)

SpecE == Init /\ [][NextE]_vars

\* A normal-mode archive as a later format version writes it, with extension
\* bytes in one block header, is opened and read by this reader.
NextF ==
    \/ \E data \in Samples, codec \in CodecIds : Orderly(AddFile(data, codec))
    \/ Orderly(Finalize)
    \/ \E ext \in ExtLens : ExtendLastBlock(ext)
    \/ Open(writer.encryption_key)
    \/ \E file_id \in 0..(MaxFiles - 1) :
          /\ rd.op = "open"
          /\ file_id < Len(reader.index.records)
          /\ Unpack(file_id)

SpecF == Init /\ [][NextF]_vars

\* Lists of known codec UUIDs of every length up to MaxCodecs; the field is
\* public, so a list may repeat an entry.
CodecLists ==
    {[i \in 1..n |-> uuid(c)] : n \in 0..MaxCodecs, c \in {"Zstd", "Lz4"}}

\* The caller sets superblock.required_codec_uuids and flags and calls
\* superblock.write(file) at offset 0 of the fresh file.  The assert on
\* body.len() panics before any byte is written.
WriteSuperblock(uuids, flags) ==
    /\ hist.op = "new"
    /\ rd.op = "none"
    /\ \E sb \in {[writer.superblock EXCEPT !.required_codec_uuids = uuids,
                                             !.flags = flags]} :
          /\ writer' = [writer EXCEPT !.superblock = sb]
          /\ IF SuperblockBodyLen(Len(uuids)) <= SUPERBLOCK_SIZE
               THEN /\ disk' = [disk EXCEPT !.sb = Superblock_write(sb)]
                    /\ hist' = [hist EXCEPT !.op = "sb_write", !.ret = "Ok"]
               ELSE /\ disk' = disk
                    /\ hist' = [hist EXCEPT !.op = "sb_write", !.ret = "panic"]
    /\ UNCHANGED <<reader, rd>>

\* Superblock::read(file) of the 256 bytes at offset 0.
ReadSuperblock ==
    /\ hist.op = "sb_write"
    /\ rd.op = "none"
    /\ \E r \in {Superblock_read(disk)} :
          rd' = [NoCall EXCEPT !.op = "sb_read", !.ok = r.ok, !.err = r.err,
                               !.val = IF r.ok THEN r.val.required_codec_uuids
                                               ELSE <<>>,
                               !.offset = IF r.ok THEN r.val.flags ELSE 0]
    /\ UNCHANGED <<writer, disk, hist, reader>>

\* A normal-mode archive of up to MaxFiles files is finalized, loses its
\* tail from some cut point on, and is scanned the way scan_file does.
NextC ==
    \/ \E data \in Samples, codec \in CodecIds : Orderly(AddFile(data, codec))
    \/ Orderly(Finalize)
    \/ \E n \in CutPoints :
          /\ hist.nfinal = 1
          /\ Truncate(n)
    \/ \E overflow_checks \in BOOLEAN :
          /\ hist.tamper = "truncate"
          /\ Scan(disk.len, TRUE, overflow_checks)

SpecC == Init /\ [][NextC]_vars

\* The last step of scan, the rating, on the counters of a scan that saw
\* total_scanned candidates, healthy_blocks of them Healthy, and rebuilt
\* records for no file (no_records) or for one.
Rate(total_scanned, healthy_blocks, no_records) ==
    /\ hist.op = "new"
    /\ rd.op = "none"
    /\ healthy_blocks <= total_scanned
    /\ ~no_records => healthy_blocks >= 1
    /\ rd' = [NoCall EXCEPT
                !.op = "quality",
                !.report = [NoReport EXCEPT
                    !.total_scanned = total_scanned,
                    !.healthy_blocks = healthy_blocks,
                    !.index.records =
                        IF no_records THEN <<>>
                        ELSE <<from_scan(0, 1,
                                 <<[content_hash   |-> blake3(<<0>>),
                                    archive_offset |-> SUPERBLOCK_SIZE,
                                    intra_offset   |-> 0,
                                    intra_length   |-> 0]>>)>>,
                    !.quality = Quality(total_scanned, healthy_blocks, no_records)]]
    /\ UNCHANGED <<writer, disk, hist, reader>>

\* Finalized archives of at most MaxTampered files, whole or with one
\* damaged block header, are scanned; and the rating step is applied to
\* counters of up to MaxScanned candidates.
NextQ ==
    \/ \E data \in Ramps, codec \in CodecIds :
          /\ Len(writer.index.records) < MaxTampered
          /\ Orderly(AddFile(data, codec))
    \/ \E codec \in CodecIds : Orderly(BeginSolid(codec))
    \/ Orderly(EndSolid)
    \/ Orderly(Finalize)
    \/ \E off \in DOMAIN disk.blocks, fault \in HeaderFaults : TamperHeader(off, fault)
    \/ \E overflow_checks \in BOOLEAN :
          /\ hist.nfinal = 1
          /\ Scan(disk.len, TRUE, overflow_checks)
    \/ \E total_scanned \in 0..MaxScanned, healthy_blocks \in 0..MaxScanned,
          no_records \in BOOLEAN :
          Rate(total_scanned, healthy_blocks, no_records)

SpecQ == Init /\ [][NextQ]_vars

\* A superblock is written into a fresh file and read back.
NextB ==
    \/ \E uuids \in CodecLists, flags \in 0..1 : WriteSuperblock(uuids, flags)
    \/ ReadSuperblock

SpecB == Init /\ [][NextB]_vars

\* A worker slot whose closure has not returned.
Pending == [ok |-> FALSE, val |-> <<>>, err |-> "pending"]

\* The chunks the callers compress: empty, equal and distinct chunks.
ParChunks == {<<>>, <<0>>, <<1>>}
ChunkLists == UNION {[1..n -> ParChunks] : n \in 0..MaxPar}

\* The sets of chunks whose compression can fail: none under the codecs
\* whose compress always returns Ok.
FailSets(chunks, codec) ==
    IF codec \in {"None", "Lz4"} THEN {{}} ELSE SUBSET (0..(Len(chunks) - 1))

\* compress_chunks_parallel(chunks, codec, level) is entered with the
\* parallel feature: one task per chunk is handed to the pool.
CompressChunksParallel(chunks, codec, fails) ==
    /\ hist.op = "new"
    /\ rd.op = "none"
    /\ rd' = [op |-> "par_run", chunks |-> chunks, codec |-> codec, fails |-> fails,
              results |-> [k \in 1..Len(chunks) |-> Pending], order |-> <<>>,
              ret |-> Pending]
    /\ UNCHANGED <<writer, disk, hist, reader>>

\* A worker returns from the closure for chunk i.
WorkerFinishes(i) ==
    /\ rd.op = "par_run"
    /\ i < Len(rd.chunks)
    /\ rd.results[i + 1] = Pending
    /\ rd' = [rd EXCEPT
                !.results[i + 1] = CompressOne(rd.chunks, rd.codec, rd.fails, i),
                !.order = Append(@, i)]
    /\ UNCHANGED <<writer, disk, hist, reader>>

\* Every task has returned: the collected results are searched for the
\* first error and the call returns.
ParallelReturns ==
    /\ rd.op = "par_run"
    /\ Len(rd.order) = Len(rd.chunks)
    /\ rd' = [rd EXCEPT !.op = "par_done",
                        !.ret = Surface(Collected(rd.results, rd.order), <<>>)]
    /\ UNCHANGED <<writer, disk, hist, reader>>

\* compress_chunks_parallel(chunks, codec, level) without the parallel
\* feature.
CompressChunksSequential(chunks, codec, fails) ==
    /\ hist.op = "new"
    /\ rd.op = "none"
    /\ rd' = [op |-> "seq_done", chunks |-> chunks, codec |-> codec, fails |-> fails,
              results |-> <<>>, order |-> <<>>,
              ret |-> compress_chunks_sequential(chunks, codec, fails, 0, <<>>)]
    /\ UNCHANGED <<writer, disk, hist, reader>>

\* Lists of up to MaxPar chunks are compressed by either build; the workers
\* of the parallel build finish in any order.
NextP ==
    \/ /\ rd.op = "none"
       /\ \E chunks \in ChunkLists, codec \in CodecIds :
             \E fails \in FailSets(chunks, codec) :
                 CompressChunksParallel(chunks, codec, fails)
    \/ \E i \in 0..(MaxPar - 1) : WorkerFinishes(i)
    \/ ParallelReturns
    \/ /\ rd.op = "none"
       /\ \E chunks \in ChunkLists, codec \in CodecIds :
             \E fails \in FailSets(chunks, codec) :
                 CompressChunksSequential(chunks, codec, fails)

SpecP == Init /\ [][NextP]_vars

\* superblock.add_required_codec(codec_id) on the writer's superblock; the
\* call and its number are recorded.
AddRequiredCodec(codec_id) ==
    /\ hist.op = "new"
    /\ rd.op \in {"none", "add_required_codec"}
    /\ rd.id < MaxCalls
    /\ writer' = [writer EXCEPT !.superblock = add_required_codec(@, codec_id)]
    /\ rd' = [NoCall EXCEPT !.op = "add_required_codec", !.id = rd.id + 1,
                            !.val = <<codec_id>>]
    /\ UNCHANGED <<disk, hist, reader>>

\* Up to MaxCalls add_required_codec calls with any codec.
NextU == \E codec_id \in Range(AllCodecs) : AddRequiredCodec(codec_id)

SpecU == Init /\ [][NextU]_vars

\* The inputs handed to decrypt: the output of encrypt under either key, whole
\* or with a flipped bit, and bytes that were never encrypted, which at these
\* lengths are shorter than the nonce.
DecryptKeys == {"k1", "k2"}
DecryptInputs ==
    LET frames == {compress(c, d) : c \in CodecIds, d \in DataSet}
    IN  {[encrypt(k, f) EXCEPT !.dmg = dmg] :
            k \in DecryptKeys, f \in frames, dmg \in BOOLEAN}
        \cup {plain(f) : f \in frames}

\* crypto::decrypt(key, data)
DecryptCall(key, data) ==
    /\ hist.op = "new"
    /\ rd.op = "none"
    /\ \E r \in {decrypt(key, data)} :
          rd' = [NoCall EXCEPT !.op = "decrypt", !.io = <<key, data>>,
                               !.ok = r.ok, !.err = r.err, !.val = r.val]
    /\ UNCHANGED <<writer, disk, hist, reader>>

NextY == \E key \in DecryptKeys, data \in DecryptInputs : DecryptCall(key, data)

SpecY == Init /\ [][NextY]_vars

\* WriteBuffer::new(inner, capacity) over an empty inner writer.
WbNew(capacity) ==
    /\ hist.op = "new"
    /\ rd.op = "none"
    /\ rd' = [op |-> "wb_new", wb |-> WriteBuffer_new(capacity), written |-> <<>>,
              calls |-> 0]
    /\ UNCHANGED <<writer, disk, hist, reader>>

\* wb.write(buf): the k-th call writes n bytes of value k, so that every
\* byte tells the call it came from.
WbWrite(n) ==
    /\ rd.op \in {"wb_new", "wb_write", "wb_flush"}
    /\ rd.calls < MaxWrites
    /\ \E buf \in {[i \in 1..n |-> rd.calls + 1]} :
          rd' = [rd EXCEPT !.op = "wb_write", !.wb = WriteBuffer_write(@, buf),
                           !.written = @ \o buf, !.calls = @ + 1]
    /\ UNCHANGED <<writer, disk, hist, reader>>

\* wb.flush()
WbFlush ==
    /\ rd.op \in {"wb_new", "wb_write"}
    /\ rd' = [rd EXCEPT !.op = "wb_flush", !.wb = WriteBuffer_flush(@)]
    /\ UNCHANGED <<writer, disk, hist, reader>>

\* A WriteBuffer of capacity 0..MaxCap takes up to MaxWrites writes of
\* 0..MaxCap + 1 bytes, with flushes anywhere between them.
NextV ==
    \/ \E capacity \in 0..MaxCap : WbNew(capacity)
    \/ \E n \in 0..(MaxCap + 1) : WbWrite(n)
    \/ WbFlush

SpecV == Init /\ [][NextV]_vars

\* The byte strings the callers encode.
RleInputs == SeqsUpTo(MaxRle)

\* The offsets at which the frames of an encoded buffer start, by the frame
\* layout: LIT is 3 + count bytes, RUN is 4 bytes.
RECURSIVE FrameStarts(_, _)
FrameStarts(enc, i) ==
    IF i >= Len(enc) THEN {}
    ELSE {i} \cup FrameStarts(enc, IF enc[i + 1] = 0
                                     THEN i + 3 + FromU16Le(enc[i + 2], enc[i + 3])
                                     ELSE i + 4)

\* Frame type bytes that are neither LIT nor RUN.
UnknownTypes == {2, 255}

\* let encoded = rle_encode(data)
RleEncode(data) ==
    /\ hist.op = "new"
    /\ rd.op = "none"
    /\ rd' = [op |-> "rle_encode", data |-> data, enc |-> rle_encode(data),
              input |-> <<>>, ret |-> None]
    /\ UNCHANGED <<writer, disk, hist, reader>>

\* rle_decode(&encoded)
RleDecode ==
    /\ rd.op = "rle_encode"
    /\ rd' = [rd EXCEPT !.op = "rle_decode", !.input = rd.enc,
                        !.ret = rle_decode(rd.enc)]
    /\ UNCHANGED <<writer, disk, hist, reader>>

\* rle_decode(&encoded[..n]) where n cuts a frame short.
RleDecodeTruncated(n) ==
    /\ rd.op = "rle_encode"
    /\ n < Len(rd.enc)
    /\ n \notin FrameStarts(rd.enc, 0)
    /\ \E input \in {SubSeq(rd.enc, 1, n)} :
          rd' = [rd EXCEPT !.op = "rle_truncated", !.input = input,
                           !.ret = rle_decode(input)]
    /\ UNCHANGED <<writer, disk, hist, reader>>

\* rle_decode of the encoded buffer with the type byte of the frame at
\* offset k replaced by frame_type.
RleDecodeUnknown(k, frame_type) ==
    /\ rd.op = "rle_encode"
    /\ k \in FrameStarts(rd.enc, 0)
    /\ \E input \in {[rd.enc EXCEPT ![k + 1] = frame_type]} :
          rd' = [rd EXCEPT !.op = "rle_unknown", !.input = input,
                           !.ret = rle_decode(input)]
    /\ UNCHANGED <<writer, disk, hist, reader>>

\* Byte strings of up to MaxRle bytes are encoded; the encoded buffer is
\* decoded whole, cut inside a frame, or with an unknown frame type.
NextL ==
    \/ /\ rd.op = "none"
       /\ \E data \in RleInputs : RleEncode(data)
    \/ RleDecode
    \/ \E n \in 0..(4 * MaxRle) : RleDecodeTruncated(n)
    \/ \E k \in 0..(4 * MaxRle), frame_type \in UnknownTypes :
          RleDecodeUnknown(k, frame_type)

SpecL == Init /\ [][NextL]_vars

\* ------------------------------------------------------ writer properties
\* The file as one finalize left it: no writer call since.
JustFinalized == hist.nfinal = 1 /\ hist.npost = 0

BlocksOfType(T) == {o \in DOMAIN disk.blocks : disk.blocks[o].header.block_type \in T}

RefPos(index) ==
    {<<i, j>> \in (1..Len(index.records)) \X (1..(MaxLen * MaxFiles + 1)) :
        j <= Len(index.records[i].block_refs)}

BlockLenAt(o) == BlockLen(disk.blocks[o])

\* The bytes taken by the blocks at the offsets in S.
RECURSIVE SumBlockLens(_)
SumBlockLens(S) ==
    IF S = {} THEN 0
    ELSE LET x == CHOOSE y \in S : TRUE IN BlockLenAt(x) + SumBlockLens(S \ {x})

\* A ref agrees with the block it points at.
RefAgrees(br) ==
    /\ br.archive_offset \in DOMAIN disk.blocks
    /\ LET b == disk.blocks[br.archive_offset]
       IN  IF br.intra_length = 0
             THEN /\ b.header.block_type = "Data"
                  /\ b.header.content_hash = br.content_hash
             ELSE /\ b.header.block_type = "Solid"
                  /\ br.intra_offset + br.intra_length <= b.header.orig_size

\* C3: in the file one finalize leaves, every BlockRef of the index agrees
\* with the block at its archive_offset: intra_length = 0 names a Data block
\* with the ref's content hash, intra_length > 0 names a Solid block that
\* contains the slice.
C3_RefsAgreeWithBlocks ==
    JustFinalized =>
        \A p \in RefPos(writer.index) :
            RefAgrees(writer.index.records[p[1]].block_refs[p[2]])

\* Every add_file so far was made outside a solid session, before finalize.
NormalOnly ==
    /\ hist.nfinal = 0
    /\ \A i \in 1..Len(hist.added) : ~hist.added[i].solid

\* The content hashes of the chunks of every file added so far.
ChunkHashesAdded ==
    {blake3(Chunk(hist.added[i].data, writer.chunk_size, k)) :
        i \in 1..Len(hist.added), k \in 0..MaxLen} \ {blake3(<<>>)}

C5_TerminalAfterFinalize ==
    [][(hist.nfinal >= 1 /\ hist'.npost = hist.npost + 1 /\ hist'.op # "finalize")
          => (hist'.ret = "Err" /\ disk' = disk)]_vars

\* C6: a second finalize returns an error and leaves the bytes of the file
\* as the first finalize left them.
C6_SecondFinalizeRejected ==
    [][(hist.nfinal >= 1 /\ hist'.nfinal = hist.nfinal + 1)
          => (hist'.ret = "Err" /\ disk' = disk)]_vars

\* C7: in the file finalize leaves, the superblock's required codec UUIDs
\* are exactly the codec UUIDs of the Data and Solid blocks.
C7_RequiredCodecsExact ==
    (hist.nfinal >= 1 /\ hist.op = "finalize" /\ hist.npost = 0) =>
        Range(disk.sb.required_codec_uuids) =
            {disk.blocks[o].header.codec_uuid : o \in BlocksOfType({"Data", "Solid"})}

Contiguous(s, total) ==
    /\ \A k \in 1..Len(s) :
          s[k].intra_offset = IF k = 1 THEN 0
                              ELSE s[k - 1].intra_offset + s[k - 1].intra_length
    /\ s # <<>> => s[Len(s)].intra_offset + s[Len(s)].intra_length = total

\* The BlockRefs of the index that point at the Solid block at offset o, in
\* record order (a file added in a solid session has one BlockRef).
SolidRefs(o) ==
    LET ids == SortedSeq({i \in 1..Len(writer.index.records) :
                            /\ writer.index.records[i].block_refs # <<>>
                            /\ writer.index.records[i].block_refs[1].archive_offset = o})
    IN  [k \in 1..Len(ids) |-> writer.index.records[ids[k]].block_refs[1]]

\* C16: the ranges pending in an open solid session are contiguous from 0
\* and end at the length of the solid buffer; the BlockRefs back-filled for
\* a Solid block are contiguous from 0, in add order, and end at the length
\* of that block's payload before compression.
C16_SolidRangesContiguous ==
    /\ Contiguous(writer.solid_file_ranges, Len(writer.solid_buffer))
    /\ \A o \in BlocksOfType({"Solid"}) :
          /\ SolidRefs(o) # <<>>
          /\ Contiguous(SolidRefs(o), disk.blocks[o].header.orig_size)
          /\ Len(disk.blocks[o].payload.frame.raw) = disk.blocks[o].header.orig_size

\* C16 witness: a Solid block holds two files of different non-zero
\* lengths, the second one starting where the first ends.
C16_Witness ==
    \E o \in BlocksOfType({"Solid"}) :
        /\ Len(SolidRefs(o)) = 2
        /\ SolidRefs(o)[1].intra_length > 0
        /\ SolidRefs(o)[2].intra_offset = SolidRefs(o)[1].intra_length
        /\ SolidRefs(o)[2].intra_length > SolidRefs(o)[1].intra_length

\* Chunks needed for n bytes with chunk size c.
CeilDiv(n, c) == (n + c - 1) \div c

\* The k-th chunk (from 0) of the i-th file is the first chunk with its
\* content among the chunks added so far, in add order.
FirstOccurrence(i, k) ==
    LET c == writer.chunk_size
        mine == Chunk(hist.added[i].data, c, k)
    IN  /\ \A k2 \in 0..(k - 1) : Chunk(hist.added[i].data, c, k2) # mine
        /\ \A i2 \in 1..(i - 1), k2 \in 0..MaxLen :
              Chunk(hist.added[i2].data, c, k2) # mine

\* What C17 says of every ref: the k-th ref of the i-th file names a Data
\* block with orig_size = min(c, n - k*c), and with file_offset = k*c when
\* positioned holds for (i, k).
RefsPerChunk(positioned(_, _)) ==
    \A i \in 1..Len(hist.added) :
        LET c == writer.chunk_size
            n == Len(hist.added[i].data)
            refs == writer.index.records[i].block_refs
        IN  /\ Len(refs) = CeilDiv(n, c)
            /\ \A k \in 0..(Len(refs) - 1) :
                  /\ refs[k + 1].archive_offset \in BlocksOfType({"Data"})
                  /\ LET h == disk.blocks[refs[k + 1].archive_offset].header
                     IN  /\ h.orig_size = Min(c, n - k * c)
                         /\ h.content_hash = blake3(Chunk(hist.added[i].data, c, k))
                         /\ refs[k + 1].content_hash = h.content_hash
                         /\ positioned(i, k) => h.file_offset = k * c

\* A chunk size of 0 given at construction is treated as 1.
ZeroChunkSizeIsOne ==
    \A key \in {NoKey, "k1"} : with_options(0, key).w.chunk_size = 1

EveryChunk(i, k) == TRUE

\* C17 as stated: a normal-mode file of n bytes gets ceil(n / c) BlockRefs
\* in file order, the k-th naming a block with file_offset = k*c and
\* orig_size = min(c, n - k*c).
C17_RefNamesBlockAtChunkOffset ==
    NormalOnly => (ZeroChunkSizeIsOne /\ RefsPerChunk(EveryChunk))

\* C17 amended: the same, with file_offset = k*c only for a chunk that is
\* the first with its content; a CAS hit names the block written for the
\* first chunk with that content.
C17_RefNamesBlockOfChunk ==
    NormalOnly => (ZeroChunkSizeIsOne /\ RefsPerChunk(FirstOccurrence))

\* C17 witness: a file of chunk_size + 1 bytes has two BlockRefs naming two
\* blocks, the second written with file_offset = chunk_size.
C17_Witness ==
    /\ NormalOnly
    /\ \E i \in 1..Len(hist.added) :
          /\ Len(hist.added[i].data) = writer.chunk_size + 1
          /\ Len(writer.index.records[i].block_refs) = 2
          /\ writer.index.records[i].block_refs[1].archive_offset
                # writer.index.records[i].block_refs[2].archive_offset
          /\ disk.blocks[writer.index.records[i].block_refs[2].archive_offset]
                .header.file_offset = writer.chunk_size

\* The Data blocks no BlockRef of the index names.
OrphanBlocks ==
    {o \in BlocksOfType({"Data"}) :
        \A p \in RefPos(writer.index) :
            writer.index.records[p[1]].block_refs[p[2]].archive_offset # o}

\* C18: the i-th record (from 0) has id i, and the records are those of the
\* add_file calls that returned Ok, in call order, whatever calls returned
\* an error in between.
C18_RecordIdsDense ==
    /\ Len(writer.index.records) = Len(hist.added)
    /\ \A i \in 1..Len(writer.index.records) :
          /\ writer.index.records[i].id = i - 1
          /\ writer.index.records[i].name = CallerName(i - 1)
          /\ writer.index.records[i].original_size = Len(hist.added[i].data)

\* C18 witness: an add_file call returned Ok after a call that had returned
\* an error and left a block behind; files were added in both modes.
C18_Witness ==
    /\ hist.op = "add_file"
    /\ hist.ret = "Ok"
    /\ OrphanBlocks # {}
    /\ Len(hist.added) = MaxFiles
    /\ \E i, j \in 1..Len(hist.added) : hist.added[i].solid /\ ~hist.added[j].solid

\* A second writer is fed the caller's operations from the i-th add_file
\* on, with codec in place of every codec the caller chose: a session is
\* begun before the first file of each solid session and ended before a
\* file added in normal mode.
RECURSIVE Replay(_, _, _)
Replay(st, codec, i) ==
    IF i > Len(hist.added) THEN st
    ELSE LET f == hist.added[i]
             st1 == IF f.solid
                      THEN IF f.first THEN start_solid_session(st, codec) ELSE st
                      ELSE flush_solid_session(st)
         IN  Replay(add_file(st1, CallerName(i - 1), f.data, codec), codec, i + 1)

\* The second writer after its finalize, built with the same chunk size and
\* with encryption_key.
Twin(codec, encryption_key) ==
    finalize(Replay(with_options(writer.chunk_size, encryption_key), codec, 1))

\* The other choice of encryption: a key when the writer has none, none
\* when it has one.
OtherKey == IF writer.encryption_key = NoKey THEN "k1" ELSE NoKey

\* C19: the root hash one finalize leaves is the root hash of a second
\* writer fed the same files in the same sessions with any codec and the
\* other choice of encryption; it is the hash over the records as they are
\* after the open solid session was flushed, and it is the root hash stored
\* in the Index block.
C19_RootHashDeterministic ==
    JustFinalized =>
        /\ \A codec \in CodecIds :
              Twin(codec, OtherKey).w.index.root_hash = writer.index.root_hash
        /\ writer.solid_file_ranges = <<>>
        /\ writer.index = compute_root_hash(writer.index)
        /\ with_key(disk, NoKey).reader.index = writer.index

\* C19 witness: finalize flushed an open solid session after a file was
\* added in normal mode, and a second writer with another codec produced
\* other bytes.
C19_Witness ==
    /\ JustFinalized
    /\ Len(hist.added) = MaxFiles
    /\ ~hist.added[1].solid
    /\ hist.added[1].data # <<>>
    /\ hist.added[MaxFiles].solid
    /\ hist.added[MaxFiles].data # <<>>
    /\ \E codec \in CodecIds :
          DOMAIN Twin(codec, OtherKey).d.blocks # DOMAIN disk.blocks

\* The offsets of the Solid blocks of a file.
SolidBlocksOf(d) ==
    {o \in DOMAIN d.blocks : d.blocks[o].header.block_type = "Solid"}

\* A solid session is open and has accumulated no byte.
EmptySession == writer.solid_codec # NoCodec /\ writer.solid_buffer = <<>>

\* C24: a start_solid_session(codec) call that follows a start_solid_session
\* call directly writes nothing and changes nothing in the writer but the
\* session's codec, which becomes codec; and whatever call is made while an
\* open session holds no byte, no Solid block is written, no codec is added
\* to required_codec_uuids by the session, and a call that ends the session
\* leaves no pending range.
C24_EmptySessionLeavesNoTrace ==
    [][/\ \A codec \in CodecIds :
            (hist.op = "begin_solid" /\ BeginSolid(codec)) =>
                /\ disk' = disk
                /\ writer' = [writer EXCEPT !.solid_codec = codec]
       /\ EmptySession =>
            /\ SolidBlocksOf(disk') = SolidBlocksOf(disk)
            /\ writer'.superblock.required_codec_uuids =
                  writer.superblock.required_codec_uuids
            /\ hist'.op \in {"begin_solid", "end_solid", "finalize"} =>
                  /\ writer'.solid_file_ranges = <<>>
                  /\ writer'.solid_buffer = <<>>
                  /\ hist'.op # "finalize" => disk' = disk]_vars

\* C24 witness: after a zero-byte file was added, start_solid_session was
\* called twice in a row, the second time with Zstd; the session is open with
\* that codec, no range is pending and the file holds no block.
C24_Witness ==
    /\ hist.twice
    /\ writer.solid_codec = "Zstd"
    /\ Len(hist.added) >= 1
    /\ writer.solid_file_ranges = <<>>
    /\ DOMAIN disk.blocks = {}

\* The offsets of the Data blocks of a file.
DataBlocksOf(d) ==
    {o \in DOMAIN d.blocks : d.blocks[o].header.block_type = "Data"}

\* The step is an add_file call that returned Ok(()).
AddedFile == hist'.op = "add_file" /\ Len(hist'.added) = Len(hist.added) + 1

\* The caller's record of the file the step added.
LastAdded == hist'.added[Len(hist'.added)]

\* A file of these bytes was added in a solid session and its record points
\* into a Solid block of the file.
StoredInSolid(data) ==
    \E i \in 1..Len(hist.added) :
        /\ hist.added[i].solid
        /\ hist.added[i].data = data
        /\ \E k \in 1..Len(writer.index.records[i].block_refs) :
              writer.index.records[i].block_refs[k].archive_offset
                  \in SolidBlocksOf(disk)

\* The bytes fill a Data block of the file.
StoredInData(data) ==
    \E o \in DataBlocksOf(disk) :
        disk.blocks[o].header.content_hash = blake3(data)

\* The chunks of a file under the writer's chunk size.
ChunksOf(data) ==
    {Chunk(data, writer.chunk_size, k) : k \in 0..Len(data)} \ {<<>>}

\* No chunk of the file is a chunk of a file added earlier in normal mode.
FreshChunks(data) ==
    \A i \in 1..Len(hist.added) :
        ~hist.added[i].solid => ChunksOf(hist.added[i].data) \cap ChunksOf(data) = {}

\* The step wrote a Data block at the writer's position and the first block
\* reference of the record it pushed points at it.
GotOwnDataBlock ==
    /\ writer.pos \in DataBlocksOf(disk') \ DOMAIN disk.blocks
    /\ LET record == writer'.index.records[Len(writer'.index.records)]
       IN  /\ Len(record.block_refs) >= 1
           /\ record.block_refs[1].archive_offset = writer.pos
           /\ record.block_refs[1].intra_length = 0

\* The step left the CAS table and the file alone and appended the bytes to
\* the solid buffer.
AppendedToBuffer ==
    /\ writer'.block_dedup = writer.block_dedup
    /\ disk' = disk
    /\ writer'.solid_buffer = writer.solid_buffer \o LastAdded.data

\* C25 as stated: add_file in a solid session leaves the CAS table unchanged
\* and appends to the solid buffer, and every file added in normal mode whose
\* bytes equal a file stored earlier in a Solid block gets a Data block of
\* its own.
C25_SolidStoredAlwaysOwnBlock ==
    [][AddedFile =>
         /\ LastAdded.solid => AppendedToBuffer
         /\ (~LastAdded.solid /\ StoredInSolid(LastAdded.data)) => GotOwnDataBlock]_vars

\* C25: add_file in a solid session leaves the CAS table and the file
\* unchanged and appends the bytes to the solid buffer, whether or not a Data
\* block holds the same bytes; ending a session leaves the CAS table
\* unchanged; and a non-empty file added in normal mode none of whose chunks
\* was added in normal mode before gets a Data block of its own, whether or
\* not a Solid block holds the same bytes.
C25_SolidBypassesCas ==
    [][/\ AddedFile =>
           /\ LastAdded.solid => AppendedToBuffer
           /\ (~LastAdded.solid /\ LastAdded.data # <<>> /\ FreshChunks(LastAdded.data))
                  => GotOwnDataBlock
       /\ hist'.op \in {"begin_solid", "end_solid"} =>
              writer'.block_dedup = writer.block_dedup
       /\ hist'.op = "finalize" =>
              \A e \in Range(writer'.block_dedup) : e.off \in DataBlocksOf(disk')]_vars

\* C25 witness: a non-empty file was stored in a Solid block, the same bytes
\* were then added in normal mode and fill a Data block, and the same bytes
\* were also appended to the buffer of a later session.
C25_Witness ==
    /\ Len(hist.added) = 3
    /\ hist.added[1].solid /\ ~hist.added[2].solid /\ hist.added[3].solid
    /\ hist.added[1].data = <<0>>
    /\ hist.added[2].data = <<0>>
    /\ hist.added[3].data = <<0>>
    /\ SolidBlocksOf(disk) # {}
    /\ StoredInData(<<0>>)
    /\ writer.solid_buffer = <<0>>

\* ------------------------------------------------------ reader properties
\* The last reader call was unpack_file on a file added in the given mode,
\* on a file that one finalize closed, opened with the writer's key.
Unpacked(solid) ==
    /\ JustFinalized
    /\ reader.open
    /\ reader.decryption_key = writer.encryption_key
    /\ rd.op = "unpack_file"
    /\ rd.id < Len(hist.added)
    /\ hist.added[rd.id + 1].solid = solid

\* C1: after add_file calls outside a solid session, one finalize and a
\* reopen, unpack_file(id) returns the bytes given to the id-th add_file.
C1_NormalRoundTrip ==
    Unpacked(FALSE) => (rd.ok /\ rd.val = hist.added[rd.id + 1].data)

\* C1 witness: a file of several chunks, one of them a CAS hit, was read
\* back.
C1_Witness ==
    /\ Unpacked(FALSE)
    /\ rd.ok
    /\ Len(rd.val) = MaxLen
    /\ Cardinality(rd.used) < Len(reader.index.records[rd.id + 1].block_refs)

\* C2: every file added in a solid session reads back as its own bytes
\* after finalize and reopen, a zero-byte file included.
C2_SolidRoundTrip ==
    Unpacked(TRUE) => (rd.ok /\ rd.val = hist.added[rd.id + 1].data)

\* The superblock on disk passes every check of Superblock::read that comes
\* before the codec check.
WellFormedSuperblock ==
    /\ disk.len >= SUPERBLOCK_SIZE
    /\ disk.sb.magic = ".6cy"
    /\ disk.sb.format_version >= MIN_FORMAT_VERSION
    /\ disk.sb.crc_ok

ListsUnknownCodec ==
    \E i \in 1..Len(disk.sb.required_codec_uuids) :
        disk.sb.required_codec_uuids[i] \notin {uuid(AllCodecs[k]) : k \in 1..Len(AllCodecs)}

\* C8: opening an archive whose (well-formed) superblock lists a codec UUID
\* outside the registry fails with UnavailableCodec, and the call has read
\* nothing beyond the 256 superblock bytes.
C8_UnknownCodecFailsAtSuperblock ==
    (rd.op = "open" /\ WellFormedSuperblock /\ ListsUnknownCodec)
        => /\ ~rd.ok
           /\ rd.err = "UnavailableCodec"
           /\ \A i \in 1..Len(rd.io) : rd.io[i].off + rd.io[i].len <= SUPERBLOCK_SIZE

\* C8 witness: an archive that holds blocks was opened with a crafted
\* superblock and the open was refused.
C8_Witness ==
    /\ rd.op = "open"
    /\ WellFormedSuperblock
    /\ ListsUnknownCodec
    /\ BlocksOfType({"Data", "Solid"}) # {}
    /\ rd.err = "UnavailableCodec"

\* The block at offset o passes every check of the decode pipeline under the
\* reader's key: header CRC32, magic, version, GCM tag when flagged
\* encrypted, and the payload bytes are the ones the writer hashed.
Intact(o) ==
    /\ o \in DOMAIN disk.blocks
    /\ disk.blocks[o].hstate = "ok"
    /\ ~disk.blocks[o].payload.dmg
    /\ is_encrypted(disk.blocks[o].header)
          => disk.blocks[o].payload.key = reader.decryption_key

ReadCall == reader.open /\ rd.op \in {"unpack_file", "read_at"}

\* The refs of the record the last reader call named.
RefsOfCall ==
    LET i == FindRecord(reader.index.records, rd.id)
    IN  IF i = 0 THEN {} ELSE Range(reader.index.records[i].block_refs)

\* The call asked for at least one byte the file holds.
AsksForBytes ==
    rd.op = "read_at" =>
        /\ rd.buflen > 0
        /\ \E i \in 1..Len(reader.index.records) :
              /\ reader.index.records[i].id = rd.id
              /\ rd.offset < reader.index.records[i].original_size

\* C9 as stated: a read call (for bytes the file holds) on a file one of
\* whose referenced blocks fails a check returns an error.
C9_AnyReferencedBlockFailsCall ==
    (ReadCall /\ AsksForBytes /\ \E br \in RefsOfCall : ~Intact(br.archive_offset))
        => ~rd.ok

\* C9 amended: no byte handed to the caller comes from a block that fails a
\* check, and a call that dereferenced such a block returned an error;
\* unpack_file dereferences every block of the record.
C9_NoBytesFromFailedBlock ==
    ReadCall =>
        /\ \A o \in rd.used : Intact(o)
        /\ rd.used \subseteq rd.touched
        /\ (\E o \in rd.touched : ~Intact(o)) => ~rd.ok
        /\ rd.ok /\ rd.op = "unpack_file"
              => rd.touched = {br.archive_offset : br \in RefsOfCall}

\* C9 witness: a read call met a damaged block after it had decoded an
\* intact one, and returned an error.
C9_Witness ==
    /\ ReadCall
    /\ ~rd.ok
    /\ \E o \in rd.touched : ~Intact(o)
    /\ \E o \in rd.touched : Intact(o)

\* C11: on an archive one finalize closed, read_at(id, offset, buf) returns
\* n = min(buf.len(), max(0, original_size - offset)) and buf[0..n) holds the
\* bytes [offset, offset + n) of what unpack_file(id) returns.
C11_ReadAtIsWindowOfUnpack ==
    (JustFinalized /\ reader.open /\ rd.op = "read_at") =>
        LET i == FindRecord(reader.index.records, rd.id)
            original_size == reader.index.records[i].original_size
            n == Min(rd.buflen, Max(0, original_size - rd.offset))
            whole == unpack_file(reader, disk, rd.id)
        IN  /\ rd.ok
            /\ whole.ok
            /\ Len(rd.val) = n
            /\ rd.val = SubSeq(whole.val, rd.offset + 1, rd.offset + n)

\* C11 witness: a read_at call filled its buffer with bytes from two Data
\* blocks.
C11_Witness ==
    /\ JustFinalized
    /\ rd.op = "read_at"
    /\ rd.ok
    /\ Cardinality(rd.used) >= 2
    /\ Len(rd.val) = MaxBuf

\* ----------------------------------------------------- scanner properties
\* scan has returned a report.
Scanned == rd.op = "scan" /\ rd.ok

\* The offsets of the blocks whose header was damaged.
DamagedHeaders == {o \in DOMAIN disk.blocks : disk.blocks[o].hstate # "ok"}

NextCandidate(e) ==
    IF e.health = "HeaderCorrupt" THEN e.archive_offset + 1
    ELSE e.archive_offset + BLOCK_HEADER_SIZE + e.header.comp_size

\* C14: every scan call returns a report; the logged candidates advance
\* through the file, at most one per byte; the scan stops at the first
\* Index block whose header parsed, which is then the last entry of the
\* log, or where fewer than 84 bytes remain.
C14_ScanReturnsReport ==
    rd.op = "scan" =>
        LET log == rd.report.block_log
        IN  /\ rd.ok
            /\ rd.report.total_scanned = Len(log)
            /\ Len(log) <= Max(0, disk.len - SUPERBLOCK_SIZE - BLOCK_HEADER_SIZE + 1)
            /\ \A k \in 1..(Len(log) - 1) :
                  /\ log[k].header.block_type # "Index"
                  /\ log[k + 1].archive_offset = NextCandidate(log[k])
            /\ IF log = <<>>
                 THEN SUPERBLOCK_SIZE + BLOCK_HEADER_SIZE > disk.len
                 ELSE \/ log[Len(log)].header.block_type = "Index"
                      \/ NextCandidate(log[Len(log)]) + BLOCK_HEADER_SIZE > disk.len

\* A scan, or its rating step, has produced a report.
Rated == (rd.op = "scan" /\ rd.ok) \/ rd.op = "quality"
HealthyShare(pct) ==
    rd.report.healthy_blocks * 100 >= pct * rd.report.total_scanned
NoRecords == rd.report.index.records = <<>>

CutInDataRegion ==
    /\ hist.tamper = "truncate"
    /\ Len(hist.added) >= 2
    /\ writer.superblock.index_offset > SUPERBLOCK_SIZE
    /\ disk.len > SUPERBLOCK_SIZE
    /\ disk.len <= writer.superblock.index_offset

\* C23: the scan of a multi-file archive cut inside its data-block region
\* is rated Partial or Catastrophic.
C23_TruncatedNeverFull ==
    (Scanned /\ CutInDataRegion) =>
        rd.report.quality \in {"Partial", "Catastrophic"}

\* The block at offset o of the source file is as the writer left it.
SourceIntact(o) ==
    /\ o \in DOMAIN disk.blocks
    /\ disk.blocks[o].hstate = "ok"
    /\ ~disk.blocks[o].payload.dmg

\* The content of the file called name in the archive extract_recoverable
\* wrote, read back through a reader opened without a key; an error when the
\* archive does not open or holds no such file.
Recovered(name) ==
    LET r == with_key(rd.dst, NoKey)
    IN  IF ~r.ok THEN Err("Open")
        ELSE IF \A i \in 1..Len(r.reader.index.records) :
                    r.reader.index.records[i].name # name
          THEN Err("NotFound")
        ELSE LET i == CHOOSE j \in 1..Len(r.reader.index.records) :
                          r.reader.index.records[j].name = name
                 u == unpack_file(r.reader, rd.dst, r.reader.index.records[i].id)
             IN  IF u.ok THEN Ok(u.val) ELSE Err(u.err)

\* C12: after extract_recoverable on a finalized normal-mode archive, every
\* original non-empty file whose referenced blocks are all intact is in the
\* new archive under recovered_file_<id>, with the original content; files
\* whose chunks were deduplicated against another file's blocks included.
C12_EveryIntactFileRecovered ==
    (rd.op = "extract_recoverable" /\ rd.ok /\ JustFinalized) =>
        \A i \in 1..Len(hist.added) :
            (/\ ~hist.added[i].solid
             /\ hist.added[i].data # <<>>
             /\ \A j \in 1..Len(writer.index.records[i].block_refs) :
                   SourceIntact(writer.index.records[i].block_refs[j].archive_offset))
              => Recovered(RecoveredName(i - 1)) = Ok(hist.added[i].data)

\* The plaintext extract_recoverable decodes from the scanned block sb under
\* the key the source was written with; an error when the block is skipped.
Salvageable(sb) ==
    LET blk == read_block_at(disk, sb.archive_offset)
    IN  IF blk.ok THEN decode_block(sb.header, blk.val.payload, writer.encryption_key)
        ELSE blk

\* C31: extract_recoverable returns the scan report on every source whose
\* reads succeed, the new archive is finalized, and every Healthy Data block
\* that decodes to some bytes has its file in the new archive, whatever
\* other block was skipped.
C31_ExtractSkipsAndCompletes ==
    rd.op = "extract_recoverable" =>
        /\ rd.ok
        /\ ~rd.report.panicked
        /\ with_key(rd.dst, NoKey).ok
        /\ \A i \in 1..Len(rd.report.block_log) :
              LET sb == rd.report.block_log[i]
              IN  (/\ is_usable(sb.health)
                   /\ sb.header.block_type = "Data"
                   /\ Salvageable(sb).ok
                   /\ Salvageable(sb).val # <<>>)
                    => Recovered(RecoveredName(sb.header.file_id)).ok

\* C32: whatever file_size_hint scan is given, a block it rates Healthy has
\* its comp_size payload bytes within the file, and a block with a parsed
\* header and a known codec whose payload runs past the end of the file is
\* rated TruncatedPayload.
C32_HealthyMeansPayloadPresent ==
    (rd.op = "scan" /\ rd.ok) =>
        \A i \in 1..Len(rd.report.block_log) :
            LET sb == rd.report.block_log[i]
                end == sb.archive_offset + BLOCK_HEADER_SIZE + sb.header.comp_size
            IN  /\ sb.health = "Healthy" => end <= disk.len
                /\ (sb.health \in {"Healthy", "TruncatedPayload"} /\ end > disk.len)
                      => sb.health = "TruncatedPayload"

\* C33: when scan is given a progress callback, the callback is invoked as
\* many times as total_scanned counts candidates, and the bytes_scanned
\* values it is passed never decrease.
C33_ProgressAfterEveryDecision ==
    (rd.op = "scan" /\ rd.ok) =>
        /\ Len(rd.report.progress) = rd.report.total_scanned
        /\ \A i \in 1..(Len(rd.report.progress) - 1) :
              rd.report.progress[i].scanned <= rd.report.progress[i + 1].scanned

\* The Index block of the finalized archive is absent (the file ends before
\* the block does) or its header does not parse; the superblock is whole.
IndexLost ==
    /\ hist.nfinal = 1
    /\ disk.len >= SUPERBLOCK_SIZE
    /\ LET off == writer.superblock.index_offset
       IN  \/ ~BlockHeader_read(disk, off).ok
           \/ off + BlockLen(disk.blocks[off]) > disk.len

\* C34: when the Index block is absent or corrupt, opening the archive
\* yields a reader, so that scan_blocks can be called on it; and scan_blocks
\* returns one record per file id that owns a Data block, named file_<id>,
\* whose references are that file's Data blocks in file_offset order.
C34_ScanBlocksReachableWithoutIndex ==
    /\ (IndexLost /\ rd.op = "open") => rd.ok
    /\ rd.op = "scan_blocks" =>
          /\ rd.ok
          /\ LET records == rd.val[1].records
             IN  /\ \A o \in DataBlocksOf(disk) :
                       \E i \in 1..Len(records) :
                           /\ records[i].id = disk.blocks[o].header.file_id
                           /\ \E k \in 1..Len(records[i].block_refs) :
                                 records[i].block_refs[k].archive_offset = o
                 /\ \A i \in 1..Len(records) :
                       /\ records[i].name = <<"file_", records[i].id>>
                       /\ \A k \in 1..(Len(records[i].block_refs) - 1) :
                             disk.blocks[records[i].block_refs[k].archive_offset]
                                 .header.file_offset
                               <= disk.blocks[records[i].block_refs[k + 1].archive_offset]
                                     .header.file_offset

\* ------------------------------------------------- encryption properties
\* The archive was written with a key and a reader call was made on it
\* with no key or with another key.
WithoutTheKey ==
    /\ JustFinalized
    /\ writer.encryption_key # NoKey
    /\ rd.op \in {"open", "unpack_file"}
    /\ rd.op = "unpack_file" => reader.decryption_key # writer.encryption_key

\* C15 as stated: the open succeeds and lists the files, and every
\* unpack_file of a listed file returns an error.
C15_EveryReadFailsWithoutKey ==
    WithoutTheKey =>
        /\ rd.op = "open" => (rd.ok /\ reader.index = writer.index)
        /\ rd.op = "unpack_file" => ~rd.ok

\* C15 amended: the open succeeds and lists the files; unpack_file of a
\* file that holds at least one byte returns an error, and so does every
\* unpack_file whose record has a BlockRef; a file without BlockRefs reads
\* back as the empty file.
C15_NonEmptyReadsFailWithoutKey ==
    WithoutTheKey =>
        /\ rd.op = "open" => (rd.ok /\ reader.index = writer.index)
        /\ rd.op = "unpack_file" =>
              LET rec == reader.index.records[rd.id + 1]
              IN  /\ rec.original_size > 0 => rec.block_refs # <<>>
                  /\ rec.block_refs # <<>> => (~rd.ok /\ rd.err = "Encryption")
                  /\ rec.block_refs = <<>> => (rd.ok /\ rd.val = <<>>)

\* C15 witness: a file of MaxLen bytes was refused to a reader holding the
\* key of another password.
C15_Witness ==
    /\ WithoutTheKey
    /\ rd.op = "unpack_file"
    /\ reader.decryption_key = "k2"
    /\ reader.index.records[rd.id + 1].original_size = MaxLen
    /\ ~rd.ok

\* ------------------------------------------------ forward compatibility
\* C20: a file read from an archive one of whose block headers carries
\* extension bytes (header_size > 84) reads back as the bytes that were
\* added: the reader skipped the extension and decoded the payload.
C20_ExtensionBytesSkipped ==
    (hist.tamper = "extension" /\ rd.op = "unpack_file") =>
        (rd.ok /\ rd.val = hist.added[rd.id + 1].data)

\* -------------------------------------------------- superblock properties
SuperblockWritten == rd.op = "sb_read"
RequiredCount == Len(writer.superblock.required_codec_uuids)
ReadBackSame ==
    /\ hist.ret = "Ok"
    /\ rd.ok
    /\ rd.val = writer.superblock.required_codec_uuids

SomeBlockEncrypted ==
    \E o \in DOMAIN disk.blocks : is_encrypted(disk.blocks[o].header)

\* C29: after finalize, bit 0 of the flags of the superblock in the file is
\* set if and only if some block of the file carries FLAG_ENCRYPTED.
C29_FlagIffSomeBlockEncrypted ==
    (hist.nfinal >= 1 /\ hist.op = "finalize" /\ hist.ret = "Ok") =>
        (disk.sb.flags % 2 = 1 <=> SomeBlockEncrypted)

\* C30: every call of decrypt that fails, under a wrong key, on a damaged
\* ciphertext or tag, or on an input shorter than the nonce, returns
\* DecryptionFailed.
C30_EveryFailureIsDecryptionFailed ==
    (rd.op = "decrypt" /\ ~rd.ok) => rd.err = "DecryptionFailed"

\* -------------------------------------------------------- perf properties
\* The call has returned, from either build.
Compressed == rd.op \in {"par_done", "seq_done"}

\* The descriptor of chunk i of the call: its index, hash, size and frame.
DescriptorOf(i) ==
    [chunk_index  |-> i,
     content_hash |-> blake3(rd.chunks[i + 1]),
     orig_size    |-> Len(rd.chunks[i + 1]),
     payload      |-> compress(rd.codec, rd.chunks[i + 1])]

\* C26: when no chunk fails, compress_chunks_parallel returns Ok with exactly
\* one descriptor per input chunk, the i-th being that of chunks[i], whatever
\* order the workers finished in; when some chunk fails it returns an error
\* and no list; and the parallel build returns what the sequential build
\* returns for the same arguments.
C26_OneDescriptorPerChunkInOrder ==
    Compressed =>
        /\ rd.fails = {} =>
              /\ rd.ret.ok
              /\ Len(rd.ret.val) = Len(rd.chunks)
              /\ \A i \in 0..(Len(rd.chunks) - 1) : rd.ret.val[i + 1] = DescriptorOf(i)
        /\ rd.fails # {} => ~rd.ret.ok /\ rd.ret.val = <<>> /\ rd.ret.err = "Compression"
        /\ rd.ret = compress_chunks_sequential(rd.chunks, rd.codec, rd.fails, 0, <<>>)

\* C26 witness: the parallel build returned three descriptors of three
\* different chunks after the worker of the last chunk finished first.
C26_Witness ==
    /\ rd.op = "par_done"
    /\ rd.chunks = <<(<<0>>), (<<1>>), <<>> >>
    /\ rd.order = <<2, 0, 1>>
    /\ rd.ret.ok
    /\ Len(rd.ret.val) = 3

\* C27: rle_decode of rle_encode(d) is Some(d) for every byte string d, the
\* empty one, runs longer than a frame's maximum count and literal stretches
\* longer than it included; rle_decode of an encoded buffer cut inside a
\* frame, or with a frame type that is neither LIT nor RUN, is None.
C27_RleRoundTrip ==
    /\ rd.op = "rle_decode" => rd.ret = Some(rd.data)
    /\ rd.op \in {"rle_truncated", "rle_unknown"} => rd.ret = None

\* C27 witness: a run longer than a frame holds, followed by a run of two
\* bytes kept as literals, was encoded as a full RUN frame and a LIT frame
\* and decoded to itself.
C27_Witness ==
    /\ rd.op = "rle_decode"
    /\ rd.data = [k \in 1..(MaxCount + 2) |-> 0]
    /\ rd.enc = <<1, MaxCount, 0, 0, 0, 2, 0, 0, 0>>
    /\ rd.ret = Some(rd.data)

\* The step is an add_required_codec call.
AddedCodec == rd'.op = "add_required_codec" /\ rd'.id = rd.id + 1

\* A list without two equal entries.
NoDuplicate(l) == \A i, j \in 1..Len(l) : l[i] = l[j] => i = j

\* C28: after every add_required_codec call required_codec_uuids holds no
\* UUID twice and not the UUID of the None codec, and a call with the None
\* codec or with a codec whose UUID is listed leaves the superblock unchanged.
C28_RequiredCodecsAreASet ==
    [][AddedCodec =>
         /\ NoDuplicate(writer'.superblock.required_codec_uuids)
         /\ uuid("None") \notin Range(writer'.superblock.required_codec_uuids)
         /\ (rd'.val[1] = "None"
                 \/ uuid(rd'.val[1]) \in Range(writer.superblock.required_codec_uuids))
               => writer'.superblock = writer.superblock]_vars

\* C28 witness: after six calls, among them one with None and one with a
\* codec already listed, the list holds the four compressors once each.
C28_Witness ==
    /\ rd.op = "add_required_codec"
    /\ rd.id = MaxCalls
    /\ rd.val = <<"Zstd">>
    /\ writer.superblock.required_codec_uuids =
           <<uuid("Zstd"), uuid("Lz4"), uuid("Brotli"), uuid("Lzma")>>

\* C35: after a flush of a WriteBuffer of any capacity, the inner writer
\* holds exactly the bytes of all write calls in call order and the buffer is
\* empty; and after every call bytes_written is the total length written and
\* the inner writer followed by the buffer is what was written.
C35_WriteBufferKeepsOrder ==
    rd.op \in {"wb_new", "wb_write", "wb_flush"} =>
        /\ rd.wb.inner \o rd.wb.buf = rd.written
        /\ rd.wb.bytes_written = Len(rd.written)
        /\ rd.op = "wb_flush" => (rd.wb.inner = rd.written /\ rd.wb.buf = <<>>)

\* C35 witness: a buffer of capacity 2 took a write of one byte, a write of
\* two bytes and a write of one byte and was flushed.
C35_Witness ==
    /\ rd.op = "wb_flush"
    /\ rd.wb.capacity = 2
    /\ rd.wb.inner = <<1, 2, 2, 3>>
    /\ rd.wb.bytes_written = 4

\* The codecs of the files added in normal mode so far.
NormalCodecs ==
    {hist.added[i].stored_with : i \in {j \in 1..Len(hist.added) : ~hist.added[j].solid}}

\* The codecs of the Solid blocks of the file that hold at least one byte.
WrittenSolidCodecs ==
    {from_uuid(disk.blocks[o].header.codec_uuid) :
        o \in {x \in SolidBlocksOf(disk) : disk.blocks[x].header.orig_size > 0}}

\* C36: a file added while a solid session is open leaves
\* required_codec_uuids as it was and, once its record has a BlockRef, is
\* stored in a Solid block compressed with the codec of the session it was
\* added in; and every required codec other than the codecs of the files
\* added in normal mode is the codec of a non-empty Solid block of the file.
C36_SessionCodecOnly ==
    /\ \A i \in 1..Len(hist.added) :
          hist.added[i].solid =>
             \A k \in 1..Len(writer.index.records[i].block_refs) :
                LET o == writer.index.records[i].block_refs[k].archive_offset
                IN  /\ o \in SolidBlocksOf(disk)
                    /\ disk.blocks[o].header.codec_uuid = uuid(hist.added[i].stored_with)
    /\ \A i \in 1..Len(writer.superblock.required_codec_uuids) :
          from_uuid(writer.superblock.required_codec_uuids[i])
              \in NormalCodecs \cup WrittenSolidCodecs

\* C37: a flush_solid_session, start_solid_session or finalize call that
\* returned the error of its flush leaves the session open, and after a
\* finalize that returned Ok(()) every record of a file that holds at least
\* one byte has a BlockRef.
C37_FailedFlushKeepsFiles ==
    /\ (hist.ret = "Err" /\ hist.op \in {"end_solid", "begin_solid", "finalize"})
          => writer.solid_codec # NoCodec
    /\ (hist.op = "finalize" /\ hist.ret = "Ok") =>
          \A i \in 1..Len(writer.index.records) :
             writer.index.records[i].original_size > 0
                => writer.index.records[i].block_refs # <<>>

\* C38: while finalize has not been called the superblock region holds the
\* zero bytes written at construction and every block starts at or after
\* offset 256; opening the file then fails with InvalidMagic, and a scan of
\* it logs exactly the blocks written, each at its offset and Healthy.
C38_AbandonedArchive ==
    hist.nfinal = 0 =>
        /\ disk.sb = ZeroSuperblock
        /\ disk.len >= SUPERBLOCK_SIZE
        /\ \A o \in DOMAIN disk.blocks : o >= SUPERBLOCK_SIZE
        /\ rd.op = "open" => (~rd.ok /\ rd.err = "InvalidMagic")
        /\ rd.op = "scan" =>
              /\ rd.ok
              /\ Len(rd.report.block_log) = Cardinality(DOMAIN disk.blocks)
              /\ \A o \in DOMAIN disk.blocks :
                    \E i \in 1..Len(rd.report.block_log) :
                       /\ rd.report.block_log[i].archive_offset = o
                       /\ rd.report.block_log[i].header = disk.blocks[o].header
                       /\ rd.report.block_log[i].health = "Healthy"

\* C38 witness: a writer that wrote two Data blocks was abandoned before
\* finalize and the file was scanned.
C38_Witness ==
    /\ hist.nfinal = 0
    /\ rd.op = "scan"
    /\ Cardinality(DataBlocksOf(disk)) = 2
    /\ rd.report.healthy_blocks = 2

C40_SizeFieldsExact ==
    \A o \in DOMAIN disk.blocks :
        /\ disk.blocks[o].header.orig_size = Len(disk.blocks[o].payload.frame.raw)
        /\ disk.blocks[o].header.comp_size = PayloadLen(disk.blocks[o].payload)

====
